---------------------------- MODULE Spec2Model ----------------------------
(***************************************************************************)
(* Directory scraping, deduplication and orchestration of src/server.js.   *)
(*                                                                         *)
(* The persistent store (scrape_jobs, scraped_cpas) is shared state; one   *)
(* scraper run is a sequential process whose program counter pc moves from *)
(* one awaited call (HTTP request, SQL query, delay) to the next.  Every   *)
(* awaited HTTP request and every awaited SQL query may reject.            *)
(***************************************************************************)
EXTENDS Integers, Sequences, FiniteSets, Bags, TLC

VARIABLES
    scrape_jobs,        \* table scrape_jobs: sequence of rows, id = index
    scraped_cpas,       \* table scraped_cpas: bag of rows
    source,             \* this.source of the scraper whose scrape() is modelled
    pc,                 \* position of the running scrape() call
    jobId,              \* const jobId of the running call (0: none yet)
    totalFound, totalInserted, totalSkipped,
    consecutiveErrors,  \* let consecutiveErrors
    cookies,            \* let cookies: the carried cookie jar
    hiddenFields,       \* let hiddenFields: the carried hidden form inputs
    searchIdx,          \* 1-based position in the search-term enumeration
    records,            \* records of the current result page not yet handled
    error,              \* the error caught by the outer catch of scrape()
    attempted,          \* log: search terms POSTed so far, in order
    event,              \* log: the outcome of the last step
    failStreak,         \* log: number of consecutive search terms that ended in the catch
    reestablishFailed,  \* log: a session re-establishment of this call has failed
    persistFailed,      \* log: a query for a record of this call has rejected
    mocked, mock,       \* fixed (mocked) directory responses, when mocked
    site,               \* the kind of directory site that answers the requests
    latestHidden,       \* log: the hidden inputs of the latest search-form response received
    received,           \* log: cookie name -> latest value received in the current session
    attemptFrom,        \* log: what the run carried when its latest re-establishment began
    returned,           \* log: what each finished scrape() call returned or threw
    queue,              \* the queries submitted to dbClient and not yet answered, in order
    page,               \* let page of CPAQuebecScraper's pagination loop
    hasMore,            \* let hasMore of CPAQuebecScraper's pagination loop
    captchaSeen,        \* log: the CAPTCHA signs the probe responses of this call carried
    results,            \* const results of runAll
    scraperIdx,         \* position of runAll in Object.entries(this.scrapers) (0: not running)
    runAllOutcome,      \* log: how runAll ended
    request,            \* the HTTP request being handled: its route and req.params.source
    responses,          \* log: the responses sent on res for that request, in order
    delIdx,             \* position of the rescrape handler in its list of sources to clear
    totalDeleted,       \* let totalDeleted of the rescrape handler
    runSingleOutcome,   \* log: how the last runSingle call ended
    clientProfile,      \* findTopMatches: its argument clientProfile
    availableCPAs,      \* findTopMatches: its argument availableCPAs
    limit,              \* findTopMatches: its argument limit
    matches,            \* findTopMatches: const matches
    cpaIdx,             \* findTopMatches: position of the loop in availableCPAs
    topMatches,         \* log: how findTopMatches ended, with the list it returned
    call,               \* a call of a synchronous helper: its name and arguments
    result,             \* log: what that call returned (<<>>: not yet called)
    scraped_smes,       \* table scraped_smes: sequence of rows, in insertion order
    csv,                \* StatCanODBusLoader.load: const lines of the largest CSV (<<>>: no CSV)
    lineIdx,            \* StatCanODBusLoader.load: position of the loop in lines
    batch,              \* StatCanODBusLoader.load: const batch
    batchRun,           \* _insertBatch: its position in records and its two counters
    cpas,               \* FirmWebsiteEnricher.enrich: const cpas.rows, the ids selected
    cpaAt,              \* FirmWebsiteEnricher.enrich: position of the loop in cpas.rows
    totalProcessed, totalEnriched,
    email,              \* FirmWebsiteEnricher.enrich: const email of the iteration
    si,                 \* CorporationsCanadaAPI.scrape: let si, 1-based (0: not running)
    corpIds,            \* CorporationsCanadaAPI.scrape: const corpIds of the search term
    corpAt,             \* CorporationsCanadaAPI.scrape: position of the loop in corpIds
    corpData,           \* CorporationsCanadaAPI.scrape: const data of the iteration
    tooMany,            \* CPAAlbertaScraper.scrape: result.tooMany of the surname-only search
    initialAt,          \* CPAAlbertaScraper.scrape: position in firstNameInitials (0: none)
    requests,           \* log: the search requests the Alberta run has sent
    base,               \* log: the counts when the search for the current surname was sent
    subResults,         \* log: how the narrowed sub-searches of the current surname ended
    runs,               \* the scrape() calls of one scraper in progress at the same time
    stripe,             \* const stripe: the Stripe client, or null without STRIPE_SECRET_KEY
    webhook_events,     \* table webhook_events (stripe_event_id UNIQUE)
    cpa_subscriptions,  \* table cpa_subscriptions (stripe_subscription_id UNIQUE)
    stripe_transactions, \* table stripe_transactions
    deliveries          \* the calls of handleStripeWebhook, each with its position and log

dbVars  == <<scrape_jobs, scraped_cpas>>
runVars == <<source, pc, jobId, totalFound, totalInserted, totalSkipped, error,
             event, returned>>
sweepVars == <<consecutiveErrors, cookies, hiddenFields, searchIdx, records,
               attempted, failStreak, reestablishFailed, persistFailed, mocked, mock, site,
               latestHidden, received, attemptFrom>>
ontarioVars == <<queue>>
quebecVars == <<page, hasMore, captchaSeen>>
orchVars == <<results, scraperIdx, runAllOutcome>>
adminVars == <<request, responses, delIdx, totalDeleted, runSingleOutcome>>
matchVars == <<clientProfile, availableCPAs, limit, matches, cpaIdx, topMatches>>
pureVars == <<call, result>>
smeVars == <<scraped_smes>>
loaderVars == <<csv, lineIdx, batch, batchRun>>
enrichVars == <<cpas, cpaAt, totalProcessed, totalEnriched, email>>
corpVars == <<si, corpIds, corpAt, corpData>>
albertaVars == <<tooMany, initialAt, requests, base, subResults>>
\* the batch jobs, and the scraper of the Alberta directory
overlapVars == <<runs>>
webhookVars == <<stripe, webhook_events, cpa_subscriptions, stripe_transactions, deliveries>>
batchVars == <<smeVars, loaderVars, enrichVars, corpVars, albertaVars, overlapVars,
               webhookVars>>
apiVars == <<adminVars, matchVars, pureVars, batchVars>>
vars == <<dbVars, runVars, sweepVars, ontarioVars, quebecVars, orchVars, apiVars>>

----------------------------------------------------------------------------
(* Bounds of the model *)

\* the sweep visits the first SweepTerms terms of the 676 (or 104) term enumeration
SweepTerms == 6
\* the same for the runs against mocked responses
RerunTerms == 2
\* how many times scrape() is called against the mocked responses
MaxRuns == 2
\* the Ontario search visits the first OntarioTerms names of longNames
OntarioTerms == 2
\* the Quebec search visits the first QuebecTerms names of COMMON_CANADIAN_LAST_NAMES
QuebecTerms == 1
\* budget and rate bounds are the multiples of RateStep up to MaxRateSteps * RateStep
RateStep == 50
MaxRateSteps == 3
\* years of experience range over 0..MaxYears
MaxYears == 11
\* names given to generateNameHash have at most MaxNameLen characters
MaxNameLen == 3
\* findTopMatches is given at most MaxCpas candidates and a limit of at most MaxLimit
MaxCpas == 3
MaxLimit == 2
\* the enricher finds at most MaxStored persons stored and is run at most MaxEnrichRuns times
MaxStored == 2
MaxEnrichRuns == 2
\* the registry search visits the first CorpTerms search terms, each result page links
\* at most CorpLinks corporations, and scrape() is called at most MaxCorpRuns times
CorpTerms == 2
CorpLinks == 1
MaxCorpRuns == 2
\* the CSV the loader reads has at most StatCanLines lines after its header
StatCanLines == 1

----------------------------------------------------------------------------
(* generateNameHash *)

UpperAZ == <<"A","B","C","D","E","F","G","H","I","J","K","L","M",
             "N","O","P","Q","R","S","T","U","V","W","X","Y","Z">>
LowerAZ == <<"a","b","c","d","e","f","g","h","i","j","k","l","m",
             "n","o","p","q","r","s","t","u","v","w","x","y","z">>

\* one character of String.prototype.toLowerCase
LowerChar(c) ==
    IF \E i \in 1..26 : UpperAZ[i] = c
    THEN LowerAZ[CHOOSE i \in 1..26 : UpperAZ[i] = c]
    ELSE c

\* variant: a hash that does not fold the case
keepCase(s) == s

\* s.toLowerCase(), a string being a sequence of one-character strings
toLowerCase(s) == [i \in 1..Len(s) |-> LowerChar(s[i])]

IsAZ(c) == \E i \in 1..26 : LowerAZ[i] = c

\* s.replace(/[^a-z]/g, '')
stripNonLetters(s) == SelectSeq(s, IsAZ)

\* The string that is digested.  SHA-256 is taken to be injective, so the
\* digest is represented by its preimage.
generateNameHash(name, province) ==
    stripNonLetters(toLowerCase(name)) \o <<":">> \o toLowerCase(province)

----------------------------------------------------------------------------
(* The scrapers that share the ASP.NET view-state protocol *)

SweepSources == {"cpabc", "cpamb", "cpask"}

Province(s) ==
    CASE s = "cpabc" -> <<"B","C">>
      [] s = "cpaalberta" -> <<"A","B">>
      [] s = "cpask" -> <<"S","K">>
      [] s = "cpamb" -> <<"M","B">>
      [] s = "cpaontario" -> <<"O","N">>
      [] s = "cpaquebec" -> <<"Q","C">>
      [] s = "cpanb" -> <<"N","B">>
      [] s = "cpans" -> <<"N","S">>
      [] s = "cpapei" -> <<"P","E">>
      [] s = "cpanl" -> <<"N","L">>

\* IMISDirectoryScraper.exactMatchOnly (only cpaSKScraper sets it)
exactMatchOnly(s) == s = "cpask"

\* the k-th two-letter prefix of the sweep aa, ab, ..., zz
Prefix(k) == <<LowerAZ[((k - 1) \div 26) + 1], LowerAZ[((k - 1) % 26) + 1]>>

\* the k-th search term of scraper s
TermAt(s, k) == IF exactMatchOnly(s) THEN <<"COMMON_CANADIAN_LAST_NAMES", k>> ELSE Prefix(k)

\* names a directory may list; NameAl and NameAL are one person
NameAl == <<"A","l">>
NameAL == <<"A","L",".">>
NameBo == <<"B","o">>

\* messages of the errors that reach a catch
ErrNetwork  == "Network Error"
ErrDb       == "query failed"
ErrNoHidden == "No hidden fields found - search page may have changed structure"
ErrNoForm   == "Could not discover search form fields - page structure may have changed"


----------------------------------------------------------------------------
(* HTTP responses of a directory site *)

\* Set-Cookie headers a response may carry: name, value, attributes
SessionCookie(v) == [k |-> "ASP.NET_SessionId", v |-> v, attrs |-> "path=/; HttpOnly"]
SetCookieOptions == {<<>>, <<SessionCookie("s1")>>}

\* the hidden inputs of a page: a function from input name to value
NoHidden == <<>>
ViewState(v) == "__VIEWSTATE" :> v
HiddenOptions == {NoHidden, ViewState("v1")}

\* the result rows of a page, each row the name it lists
RowOptions == {<<>>, <<NameAl>>, <<NameBo, NameAL>>}

\* the search form of a page: its text inputs and its submit button ("" if none)
GoodForm == [textInputs |-> <<"Input0$TextBox1">>, submitButton |-> "SubmitButton"]
FormOptions == {GoodForm,
                [textInputs |-> <<>>, submitButton |-> "SubmitButton"],
                [textInputs |-> <<"Input0$TextBox1">>, submitButton |-> ""]}

Page(h, f, r) == [hidden |-> h, form |-> f, rows |-> r]
Response(c, p) == [ok |-> TRUE, setCookie |-> c, page |-> p]
\* a request that rejects: network error, timeout, HTTP error status
Failure == [ok |-> FALSE, setCookie |-> <<>>, page |-> Page(NoHidden, GoodForm, <<>>)]

\* answers to GET agreementUrl
AgreementResponses ==
    {Failure} \cup {Response(c, Page(NoHidden, GoodForm, <<>>)) : c \in SetCookieOptions}
\* answers to GET searchUrl
SearchPageResponses ==
    {Failure} \cup {Response(c, Page(h, f, <<>>)) :
                        c \in SetCookieOptions, h \in {NoHidden, ViewState("v0")}, f \in FormOptions}
\* answers to POST searchUrl
SearchResponses ==
    {Failure} \cup {Response(c, Page(h, GoodForm, r)) :
                        c \in SetCookieOptions, h \in HiddenOptions, r \in RowOptions}

\* the responses a test fixes per URL and per search term
MockSearchResponses ==
    {Failure} \cup {Response(<<>>, Page(ViewState("v1"), GoodForm, r)) : r \in RowOptions}
MockSearchPageResponses ==
    {Failure, Response(<<SessionCookie("s1")>>, Page(ViewState("v0"), GoodForm, <<>>))}
Mocks == [agreement : {Response(<<>>, Page(NoHidden, GoodForm, <<>>))},
          searchPage : MockSearchPageResponses,
          terms : [1..RerunTerms -> MockSearchResponses]]
\* the value of mock when nothing is mocked
NoMock == [agreement |-> Failure, searchPage |-> Failure,
           terms |-> [k \in 1..RerunTerms |-> Failure]]

\* a site that sets two cookies and changes their values, and lists one person at most
PlainSite == "plain"
TwoCookieSite == "twoCookies"
TokenCookie(v) == [k |-> "__RequestVerificationToken", v |-> v, attrs |-> "path=/"]
TwoCookieOptions == {<<>>, <<SessionCookie("s1")>>, <<TokenCookie("t2")>>,
                     <<SessionCookie("s2"), TokenCookie("t1")>>}
TwoCookieAgreementResponses ==
    {Failure} \cup {Response(c, Page(NoHidden, GoodForm, <<>>)) : c \in TwoCookieOptions}
TwoCookieSearchPageResponses ==
    {Failure} \cup {Response(c, Page(ViewState("v0"), GoodForm, <<>>)) : c \in TwoCookieOptions}
TwoCookieSearchResponses ==
    {Failure} \cup {Response(c, Page(ViewState("v1"), GoodForm, r)) :
                        c \in TwoCookieOptions, r \in {<<>>, <<NameAl>>}}

NumTerms == IF mocked THEN RerunTerms ELSE SweepTerms
AgreementAnswers ==
    IF mocked THEN {mock.agreement}
    ELSE IF site = TwoCookieSite THEN TwoCookieAgreementResponses ELSE AgreementResponses
SearchPageAnswers ==
    IF mocked THEN {mock.searchPage}
    ELSE IF site = TwoCookieSite THEN TwoCookieSearchPageResponses ELSE SearchPageResponses
SearchAnswers(k) ==
    IF mocked THEN {mock.terms[k]}
    ELSE IF site = TwoCookieSite THEN TwoCookieSearchResponses ELSE SearchResponses

\* log: the cookies received so far, by name, each with the latest value received
NoCookies == <<>>
Received(log, setCookie) ==
    [n \in DOMAIN log \cup {setCookie[i].k : i \in 1..Len(setCookie)} |->
        IF \E i \in 1..Len(setCookie) : setCookie[i].k = n
        THEN LET last == CHOOSE i \in 1..Len(setCookie) :
                            /\ setCookie[i].k = n
                            /\ \A j \in (i + 1)..Len(setCookie) : setCookie[j].k # n
             IN  setCookie[last].v
        ELSE log[n]]

----------------------------------------------------------------------------
(* Cookie and hidden-field helpers of CPABCScraper / IMISDirectoryScraper *)

\* the cookie string "k=v; k2=v2" is the sequence of its k=v pairs
extractCookies(setCookie) ==
    [i \in 1..Len(setCookie) |-> [k |-> setCookie[i].k, v |-> setCookie[i].v]]

\* cookieMap[c.k] = c.v, keeping the insertion order of Object.entries
PutCookie(jar, c) ==
    IF \E i \in 1..Len(jar) : jar[i].k = c.k
    THEN [i \in 1..Len(jar) |-> IF jar[i].k = c.k THEN c ELSE jar[i]]
    ELSE Append(jar, c)

RECURSIVE PutCookies(_, _)
PutCookies(jar, cs) ==
    IF cs = <<>> THEN jar ELSE PutCookies(PutCookie(jar, Head(cs)), Tail(cs))

\* variant: a merge that keeps only the cookies of the latest response
mergeKeepsNewOnly(existing, setCookie) ==
    LET newCookies == extractCookies(setCookie)
    IN  IF newCookies = <<>> THEN existing ELSE newCookies

mergeCookies(existing, setCookie) ==
    LET newCookies == extractCookies(setCookie)
    IN  IF newCookies = <<>> THEN existing
        ELSE PutCookies(PutCookies(<<>>, existing), newCookies)

extractHiddenFields(html) == html.hidden

fieldCount(fields) == Cardinality(DOMAIN fields)

\* _parseResults, the html being its parsed grid: one record per row
parseResults(html) == html.rows

----------------------------------------------------------------------------
(* The store *)

JobRow(s) == [source |-> s, status |-> "running", records_found |-> 0,
              records_inserted |-> 0, records_skipped |-> 0, error_message |-> ""]

CpaRow(s, fullName, nameHash, job) ==
    [source |-> s, full_name |-> fullName, name_hash |-> nameHash, scrape_job_id |-> job]

\* variant: a lookup that never finds a stored row
SelectNothing(table, h) == {}

\* SELECT id FROM scraped_cpas WHERE name_hash = $1
SelectByHash(table, h) == {r \in BagToSet(table) : r.name_hash = h}

\* number of rows of the table with name_hash h
HashCount(table, h) ==
    LET rows == SelectByHash(table, h)
        RECURSIVE Sum(_)
        Sum(S) == IF S = {} THEN 0
                  ELSE LET r == CHOOSE x \in S : TRUE IN table[r] + Sum(S \ {r})
    IN  Sum(rows)

\* UPDATE scrape_jobs SET status = 'completed', ... WHERE id = $1
completeJobRow(jobs, id, found, inserted, skipped) ==
    [jobs EXCEPT ![id].status = "completed", ![id].records_found = found,
                 ![id].records_inserted = inserted, ![id].records_skipped = skipped]

\* UPDATE scrape_jobs SET status = 'failed', error_message = $2 WHERE id = $1
failJobRow(jobs, id, msg) ==
    [jobs EXCEPT ![id].status = "failed", ![id].error_message = msg]

----------------------------------------------------------------------------
(* CPABCScraper.scrape and IMISDirectoryScraper.scrape *)

counters == <<totalFound, totalInserted, totalSkipped>>
session  == <<cookies, hiddenFields>>
\* what a view-state scraper run leaves alone: its configuration, the mocked
\* responses, and the state of the other scrapers and of the orchestrator
fixture  == <<source, mocked, mock, site, ontarioVars, quebecVars, orchVars, apiVars>>
wire     == <<latestHidden, received, attemptFrom>>

\* what a run carries from one request to the next
Carried == [cookies |-> cookies, hiddenFields |-> hiddenFields,
            consecutiveErrors |-> consecutiveErrors]
NoAttempt == [cookies |-> <<>>, hiddenFields |-> NoHidden, consecutiveErrors |-> 0]
sweepLog == <<attempted, failStreak, reestablishFailed, wire, persistFailed>>

IsBC == source = "cpabc"

\* if (consecutiveErrors >= 5): the session is re-established
ReestablishThreshold == 5
\* variant: a scraper that re-establishes one failure early
needsReestablishEarly(n) == n >= ReestablishThreshold - 1
needsReestablish(n) == n >= ReestablishThreshold

\* scrape(dbClient) is called; at most one call runs at a time
CallScrape ==
    /\ pc = "idle"
    /\ Len(returned) < (IF mocked THEN MaxRuns ELSE 1)
    /\ pc' = "startJob"
    /\ jobId' = 0
    /\ totalFound' = 0 /\ totalInserted' = 0 /\ totalSkipped' = 0
    /\ consecutiveErrors' = 0
    /\ cookies' = <<>> /\ hiddenFields' = NoHidden
    /\ searchIdx' = 0 /\ records' = <<>> /\ error' = ""
    /\ attempted' = <<>> /\ failStreak' = 0 /\ reestablishFailed' = FALSE
    /\ latestHidden' = NoHidden /\ received' = NoCookies /\ persistFailed' = FALSE
    /\ attemptFrom' = NoAttempt
    /\ event' = "called"
    /\ UNCHANGED <<dbVars, fixture, returned>>

\* the first awaited request inside the try block of scrape()
FirstStep ==
    CASE source = "cpabc" -> "agreement"
      [] source = "cpaquebec" -> "qcPage"
      [] source = "cpaalberta" -> "abSurname"
      [] OTHER -> "searchPage"

\* const jobId = await this._startJob(dbClient), the INSERT succeeding
StartJob ==
    /\ pc = "startJob"
    /\ scrape_jobs' = Append(scrape_jobs, JobRow(source))
    /\ jobId' = Len(scrape_jobs) + 1
    /\ pc' = FirstStep
    /\ event' = "jobStarted"
    /\ UNCHANGED <<scraped_cpas, counters, consecutiveErrors, session, searchIdx,
                   records, error, sweepLog, fixture, returned>>

\* the INSERT of _startJob rejects: scrape() rejects before its try block
StartJobFails ==
    /\ pc = "startJob"
    /\ pc' = "idle"
    /\ returned' = Append(returned, [kind |-> "throw", jobId |-> 0, found |-> 0,
                                     inserted |-> 0, skipped |-> 0, message |-> ErrDb])
    /\ event' = "threw"
    /\ UNCHANGED <<dbVars, jobId, counters, consecutiveErrors, session, searchIdx,
                   records, error, sweepLog, fixture>>

\* throw inside the outer try: control moves to catch (error) { await this._failJob(...) }
Fatal(msg, ev) ==
    /\ error' = msg
    /\ pc' = "failJob"
    /\ event' = ev

\* CPABC step 1: GET agreementUrl
LoadAgreement ==
    /\ pc = "agreement"
    /\ \E res \in AgreementAnswers :
         IF res.ok
         THEN /\ cookies' = extractCookies(res.setCookie)
              /\ received' = Received(NoCookies, res.setCookie)
              /\ pc' = "delayAgreement"
              /\ event' = "pageOk"
              /\ UNCHANGED error
         ELSE /\ Fatal(ErrNetwork, "pageFailed")
              /\ UNCHANGED <<cookies, received>>
    /\ UNCHANGED <<dbVars, jobId, counters, consecutiveErrors, hiddenFields, searchIdx,
                   records, attempted, failStreak, reestablishFailed, persistFailed, latestHidden,
                   attemptFrom, fixture, returned>>

\* await delay(2000) between the agreement page and the search page
DelayAgreement ==
    /\ pc = "delayAgreement"
    /\ pc' = "searchPage"
    /\ event' = "delay"
    /\ UNCHANGED <<dbVars, jobId, counters, consecutiveErrors, session, searchIdx,
                   records, error, sweepLog, fixture, returned>>

\* whether the first search page has the structure the scraper needs
structureFound(html) ==
    IF IsBC THEN fieldCount(extractHiddenFields(html)) # 0
    ELSE html.form.submitButton # "" /\ Len(html.form.textInputs) # 0

\* GET searchUrl: hidden fields (CPABC) or form discovery (iMIS), then the loop starts
LoadSearchPage ==
    /\ pc = "searchPage"
    /\ \E res \in SearchPageAnswers :
         IF ~res.ok
         THEN /\ Fatal(ErrNetwork, "pageFailed")
              /\ UNCHANGED <<session, searchIdx, wire>>
         ELSE /\ cookies' = IF IsBC THEN mergeCookies(cookies, res.setCookie)
                                    ELSE extractCookies(res.setCookie)
              /\ received' = Received(IF IsBC THEN received ELSE NoCookies, res.setCookie)
              /\ hiddenFields' = extractHiddenFields(res.page)
              /\ latestHidden' = extractHiddenFields(res.page)
              /\ UNCHANGED attemptFrom
              /\ IF structureFound(res.page)
                 THEN /\ pc' = "search"
                      /\ searchIdx' = 1
                      /\ event' = "pageOk"
                      /\ UNCHANGED error
                 ELSE /\ Fatal(IF IsBC THEN ErrNoHidden ELSE ErrNoForm, "structural")
                      /\ UNCHANGED searchIdx
    /\ UNCHANGED <<dbVars, jobId, counters, consecutiveErrors, records, attempted,
                   failStreak, reestablishFailed, persistFailed, fixture, returned>>

\* variant: a scraper whose sweep stops at the first failed term
CatchTermEndsSweep(ev) ==
    /\ consecutiveErrors' = consecutiveErrors + 1
    /\ failStreak' = failStreak + 1
    /\ records' = <<>>
    /\ event' = ev
    /\ pc' = "completeJob"

\* catch (err) of one search term: consecutiveErrors++, then maybe re-establish
CatchTerm(ev) ==
    /\ consecutiveErrors' = consecutiveErrors + 1
    /\ failStreak' = failStreak + 1
    /\ records' = <<>>
    /\ event' = ev
    /\ pc' = IF needsReestablish(consecutiveErrors + 1)
             THEN (IF IsBC THEN "reAgreement" ELSE "reSearchPage")
             ELSE "delay"

\* the try block of one term ran to its end
TermDone == /\ pc' = "delay" /\ failStreak' = 0

\* POST searchUrl with the carried hidden fields and the search term
Search ==
    /\ pc = "search"
    /\ attempted' = Append(attempted, TermAt(source, searchIdx))
    /\ \E res \in SearchAnswers(searchIdx) :
         IF ~res.ok
         THEN /\ CatchTerm("searchFailed")
              /\ UNCHANGED <<session, counters, wire>>
         ELSE LET newHiddenFields == extractHiddenFields(res.page)
                  recs == parseResults(res.page)
              IN  /\ cookies' = mergeCookies(cookies, res.setCookie)
                  /\ received' = Received(received, res.setCookie)
                  /\ latestHidden' = newHiddenFields
                  /\ UNCHANGED attemptFrom
                  /\ hiddenFields' = IF fieldCount(newHiddenFields) > 0
                                     THEN newHiddenFields ELSE hiddenFields
                  /\ totalFound' = totalFound + Len(recs)
                  /\ consecutiveErrors' = 0
                  /\ records' = recs
                  /\ event' = "searchOk"
                  /\ IF recs = <<>> THEN TermDone
                                    ELSE pc' = "dedup" /\ UNCHANGED failStreak
                  /\ UNCHANGED <<totalInserted, totalSkipped>>
    /\ UNCHANGED <<dbVars, jobId, searchIdx, error, reestablishFailed, persistFailed, fixture,
                   returned>>

nameHashOf(fullName) == generateNameHash(fullName, Province(source))

\* after one record: the next record, or the end of the try block
NextRecord ==
    /\ records' = Tail(records)
    /\ IF Tail(records) = <<>> THEN TermDone ELSE pc' = "dedup" /\ UNCHANGED failStreak

\* SELECT id FROM scraped_cpas WHERE name_hash = $1, the query succeeding
DedupCheck ==
    /\ pc = "dedup"
    /\ IF SelectByHash(scraped_cpas, nameHashOf(Head(records))) # {}
       THEN /\ totalSkipped' = totalSkipped + 1
            /\ event' = "skipped"
            /\ NextRecord
       ELSE /\ pc' = "insert"
            /\ event' = "notStored"
            /\ UNCHANGED <<totalSkipped, records, failStreak>>
    /\ UNCHANGED <<dbVars, jobId, totalFound, totalInserted, consecutiveErrors, session,
                   searchIdx, error, attempted, reestablishFailed, wire, persistFailed,
                   fixture, returned>>

\* INSERT INTO scraped_cpas ..., the query succeeding
InsertRecord ==
    /\ pc = "insert"
    /\ scraped_cpas' = scraped_cpas
           (+) SetToBag({CpaRow(source, Head(records), nameHashOf(Head(records)), jobId)})
    /\ totalInserted' = totalInserted + 1
    /\ event' = "inserted"
    /\ NextRecord
    /\ UNCHANGED <<scrape_jobs, jobId, totalFound, totalSkipped, consecutiveErrors, session,
                   searchIdx, error, attempted, reestablishFailed, wire, persistFailed,
                   fixture, returned>>

\* the SELECT or the INSERT of a record rejects: control moves to the term's catch
RecordQueryFails ==
    /\ pc \in {"dedup", "insert"}
    /\ CatchTerm("recordFailed")
    /\ persistFailed' = TRUE
    /\ UNCHANGED <<dbVars, jobId, counters, session, searchIdx, error, attempted,
                   reestablishFailed, wire, fixture, returned>>

\* variant: a scraper whose run ends when re-establishment fails
ReestablishFailedEndsRun ==
    /\ pc' = "completeJob"
    /\ event' = "reestablishFailed"
    /\ reestablishFailed' = TRUE

\* the inner catch (reErr): the failure is logged and the term ends
ReestablishFailed ==
    /\ pc' = "delay"
    /\ event' = "reestablishFailed"
    /\ reestablishFailed' = TRUE

\* CPABC re-establishment, first request: GET agreementUrl
ReloadAgreement ==
    /\ pc = "reAgreement"
    /\ attemptFrom' = Carried
    /\ \E res \in AgreementAnswers :
         IF res.ok
         THEN /\ cookies' = extractCookies(res.setCookie)
              /\ received' = Received(NoCookies, res.setCookie)
              /\ pc' = "reDelay"
              /\ event' = "reAgreementOk"
              /\ UNCHANGED reestablishFailed
         ELSE /\ ReestablishFailed
              /\ UNCHANGED <<cookies, received>>
    /\ UNCHANGED <<dbVars, jobId, counters, consecutiveErrors, hiddenFields, searchIdx,
                   records, error, attempted, failStreak, latestHidden, persistFailed,
                   fixture, returned>>

\* await delay(2000) inside the CPABC re-establishment
DelayReestablish ==
    /\ pc = "reDelay"
    /\ pc' = "reSearchPage"
    /\ event' = "delay"
    /\ UNCHANGED <<dbVars, jobId, counters, consecutiveErrors, session, searchIdx,
                   records, error, sweepLog, fixture, returned>>

\* re-establishment: GET searchUrl (the second request of CPABC, the only one of iMIS)
ReloadSearchPage ==
    /\ pc = "reSearchPage"
    /\ \E res \in SearchPageAnswers :
         IF res.ok
         THEN /\ cookies' = IF IsBC THEN mergeCookies(cookies, res.setCookie)
                                    ELSE extractCookies(res.setCookie)
              /\ received' = Received(IF IsBC THEN received ELSE NoCookies, res.setCookie)
              /\ hiddenFields' = extractHiddenFields(res.page)
              /\ latestHidden' = extractHiddenFields(res.page)
              /\ UNCHANGED attemptFrom
              /\ consecutiveErrors' = 0
              /\ pc' = "delay"
              /\ event' = "reestablished"
              /\ UNCHANGED reestablishFailed
         ELSE /\ ReestablishFailed
              /\ UNCHANGED <<session, consecutiveErrors, wire>>
    /\ UNCHANGED <<dbVars, jobId, counters, searchIdx, records, error, attempted,
                   failStreak, persistFailed, fixture, returned>>

\* await delay(3000) at the end of one term, then the loop condition
DelayTerm ==
    /\ pc = "delay"
    /\ searchIdx' = searchIdx + 1
    /\ pc' = IF searchIdx + 1 > NumTerms THEN "completeJob" ELSE "search"
    /\ event' = "delay"
    /\ UNCHANGED <<dbVars, jobId, counters, consecutiveErrors, session, records, error,
                   sweepLog, fixture, returned>>

\* await this._completeJob(...), the UPDATE succeeding
CompleteJob ==
    /\ pc = "completeJob"
    /\ scrape_jobs' = completeJobRow(scrape_jobs, jobId, totalFound, totalInserted, totalSkipped)
    /\ pc' = "return"
    /\ event' = "completed"
    /\ UNCHANGED <<scraped_cpas, jobId, counters, consecutiveErrors, session, searchIdx,
                   records, error, sweepLog, fixture, returned>>

\* the UPDATE of _completeJob rejects inside the try block: the outer catch runs
CompleteJobFails ==
    /\ pc = "completeJob"
    /\ Fatal(ErrDb, "completeFailed")
    /\ UNCHANGED <<dbVars, jobId, counters, consecutiveErrors, session, searchIdx,
                   records, sweepLog, fixture, returned>>

\* catch (error) { await this._failJob(dbClient, jobId, error.message) }, the UPDATE succeeding
FailJob ==
    /\ pc = "failJob"
    /\ scrape_jobs' = failJobRow(scrape_jobs, jobId, error)
    /\ pc' = "return"
    /\ event' = "failed"
    /\ UNCHANGED <<scraped_cpas, jobId, counters, consecutiveErrors, session, searchIdx,
                   records, error, sweepLog, fixture, returned>>

\* the UPDATE of _failJob rejects inside the catch block: scrape() rejects
FailJobFails ==
    /\ pc = "failJob"
    /\ pc' = "idle"
    /\ returned' = Append(returned, [kind |-> "throw", jobId |-> jobId, found |-> totalFound,
                                     inserted |-> totalInserted, skipped |-> totalSkipped,
                                     message |-> ErrDb])
    /\ event' = "threw"
    /\ UNCHANGED <<dbVars, jobId, counters, consecutiveErrors, session, searchIdx,
                   records, error, sweepLog, fixture>>

\* return { found: totalFound, inserted: totalInserted, skipped: totalSkipped }
ReturnCounts ==
    /\ pc = "return"
    /\ pc' = "idle"
    /\ returned' = Append(returned, [kind |-> "return", jobId |-> jobId, found |-> totalFound,
                                     inserted |-> totalInserted, skipped |-> totalSkipped,
                                     message |-> ""])
    /\ event' = "returned"
    /\ UNCHANGED <<dbVars, jobId, counters, consecutiveErrors, session, searchIdx,
                   records, error, sweepLog, fixture>>

----------------------------------------------------------------------------
(* One scrape() call of a view-state scraper against an arbitrary site *)

\* no HTTP request has arrived and runSingle has not been called
NoRequest == [route |-> "none", source |-> ""]
NoOutcome == [kind |-> "none", message |-> "", name |-> "", available |-> <<>>]
AdminIdle ==
    /\ request = NoRequest /\ responses = <<>>
    /\ delIdx = 0 /\ totalDeleted = 0
    /\ runSingleOutcome = NoOutcome

\* findTopMatches has not been called
NoProfile == [cpa_id |-> 0]
NotEnded == [kind |-> "none", list |-> <<>>]
MatchIdle ==
    /\ clientProfile = NoProfile /\ availableCPAs = <<>> /\ limit = 0
    /\ matches = <<>> /\ cpaIdx = 0 /\ topMatches = NotEnded

\* no helper has been called
NoCall == [fn |-> "none", args |-> <<>>]
PureIdle == call = NoCall /\ result = <<>>

\* nothing of CPAOntarioScraper, CPAQuebecScraper or runAll is in progress
ScrapersIdle ==
    /\ queue = <<>>
    /\ page = 0 /\ hasMore = TRUE /\ captchaSeen = {}
    /\ results = <<>> /\ scraperIdx = 0 /\ runAllOutcome = "none"

\* StatCanODBusLoader.load has not been called
NoBatchRun == [idx |-> 0, inserted |-> 0, skipped |-> 0]
LoaderIdle == csv = <<>> /\ lineIdx = 0 /\ batch = <<>> /\ batchRun = NoBatchRun

\* FirmWebsiteEnricher.enrich has not been called; null stands for JavaScript's null
null == [t |-> "null"]
EnrichIdle ==
    /\ cpas = <<>> /\ cpaAt = 0 /\ totalProcessed = 0 /\ totalEnriched = 0 /\ email = null

\* CorporationsCanadaAPI.scrape has not been called
CorpIdle == si = 0 /\ corpIds = <<>> /\ corpAt = 0 /\ corpData = null

\* no business record is stored and no batch job is in progress
\* CPAAlbertaScraper.scrape has not been called
AlbertaIdle ==
    /\ tooMany = FALSE /\ initialAt = 0 /\ requests = 0
    /\ base = <<0, 0, 0>> /\ subResults = <<>>

\* no handler or scheduled job has called a scraper (overlapping calls)
MaxOverlap == 2
NoRun == [state |-> "idle", via |-> "none", jobId |-> 0, term |-> 0, records |-> <<>>,
          found |-> 0, inserted |-> 0, skipped |-> 0]
OverlapIdle == runs = [r \in 1..MaxOverlap |-> NoRun]

\* no webhook has been delivered
MaxDeliveries == 3
StripeClient == "client"
NoStripe == "null"
NoEvent == [id |-> "", type |-> "", subscription |-> "", status |-> ""]
NoDelivery == [state |-> "idle", event |-> NoEvent, redelivery |-> FALSE,
               recorded |-> "no", dispatched |-> FALSE, threw |-> FALSE, answer |-> "none"]
StripeIdle ==
    /\ webhook_events = {} /\ cpa_subscriptions = {} /\ stripe_transactions = EmptyBag
    /\ deliveries = [d \in 1..MaxDeliveries |-> NoDelivery]
WebhookIdle == stripe = StripeClient /\ StripeIdle

BatchIdle ==
    /\ scraped_smes = <<>> /\ LoaderIdle /\ EnrichIdle /\ CorpIdle /\ AlbertaIdle
    /\ OverlapIdle /\ WebhookIdle

\* nor anything of the HTTP API, the matching engine, the helpers or the batch jobs
OthersIdle == ScrapersIdle /\ AdminIdle /\ MatchIdle /\ PureIdle /\ BatchIdle

RunIdle ==
    /\ pc = "idle" /\ jobId = 0
    /\ totalFound = 0 /\ totalInserted = 0 /\ totalSkipped = 0
    /\ consecutiveErrors = 0
    /\ cookies = <<>> /\ hiddenFields = NoHidden
    /\ searchIdx = 0 /\ records = <<>> /\ error = ""
    /\ attempted = <<>> /\ failStreak = 0 /\ reestablishFailed = FALSE /\ event = "none"
    /\ latestHidden = NoHidden /\ received = NoCookies /\ persistFailed = FALSE
    /\ attemptFrom = NoAttempt
    /\ returned = <<>>

InitSweep ==
    /\ source \in SweepSources
    /\ scrape_jobs = <<>>
    /\ scraped_cpas = EmptyBag
    /\ mocked = FALSE /\ mock = NoMock /\ site = PlainSite
    /\ RunIdle /\ OthersIdle

LoadSteps == LoadAgreement \/ DelayAgreement \/ LoadSearchPage
TermSteps == Search \/ DedupCheck \/ InsertRecord \/ RecordQueryFails \/ DelayTerm
ReestablishSteps == ReloadAgreement \/ DelayReestablish \/ ReloadSearchPage
JobSteps == StartJob \/ StartJobFails \/ CompleteJob \/ CompleteJobFails
              \/ FailJob \/ FailJobFails \/ ReturnCounts

NextSweep == CallScrape \/ JobSteps \/ LoadSteps \/ TermSteps \/ ReestablishSteps

SpecSweep == InitSweep /\ [][NextSweep]_vars

----------------------------------------------------------------------------
(* Properties of one view-state scraper run *)

\* a scrape() call has finished, by returning or by throwing
Finished == pc = "idle" /\ returned # <<>>

\* the row of scrape_jobs that the last call created
JobOfRun == scrape_jobs[jobId]

\* C1: once a call has created its job row, then when the call has finished, by
\* returning or by throwing, that job row is 'completed' or 'failed' and not 'running'
C1_JobNeverLeftRunning ==
    \A i \in 1..Len(returned) :
        returned[i].jobId # 0 =>
            scrape_jobs[returned[i].jobId].status \in {"completed", "failed"}

\* a re-establishment request is in flight or has just been answered
Reestablishing ==
    \/ pc \in {"reAgreement", "reDelay", "reSearchPage"}
    \/ event \in {"reAgreementOk", "reestablished", "reestablishFailed"}

\* C5: re-establishment is attempted only when a failed term has brought the
\* consecutive-failure counter to 5 or more, after at least five consecutive failed
\* terms; a successful search and a successful re-establishment leave the counter at 0
C5_ReestablishOnlyAtThreshold ==
    /\ pc \in {"reAgreement", "reDelay", "reSearchPage"}
           => consecutiveErrors >= ReestablishThreshold
    /\ Reestablishing => failStreak >= ReestablishThreshold
    /\ event = "searchOk" => consecutiveErrors = 0
    /\ event = "reestablished" => consecutiveErrors = 0

C5_Witness ==
    /\ event = "reestablished"
    /\ consecutiveErrors = 0
    /\ failStreak >= ReestablishThreshold

\* the terms POSTed so far are the first terms of the enumeration, each once, in order
AttemptedInOrder ==
    /\ Len(attempted) <= NumTerms
    /\ attempted = [k \in 1..Len(attempted) |-> TermAt(source, k)]
    /\ \A j, k \in 1..NumTerms : j # k => TermAt(source, j) # TermAt(source, k)

\* the call is past its initial page load
SweepStarted == searchIdx >= 1

C6_State ==
    /\ AttemptedInOrder
    /\ (SweepStarted /\ pc \in {"completeJob", "failJob", "return", "idle"})
           => Len(attempted) = NumTerms

\* the longest result page a directory answers with
MaxRows == CHOOSE n \in 0..8 :
              /\ \A r \in RowOptions : Len(r) <= n
              /\ \E r \in RowOptions : Len(r) = n

\* an upper bound on the steps one term takes from its POST to the end of its delay
StepsOfTerm == 2 * MaxRows + 6

\* an upper bound on the steps left in the current term
StepsLeftInTerm ==
    CASE pc = "search"       -> StepsOfTerm
      [] pc = "dedup"        -> 2 * Len(records) + 5
      [] pc = "insert"       -> 2 * Len(records) + 4
      [] pc = "reAgreement"  -> 4
      [] pc = "reDelay"      -> 3
      [] pc = "reSearchPage" -> 2
      [] pc = "delay"        -> 1
      [] OTHER               -> 0

\* an upper bound on the steps the running call still takes: it is 0 only when no
\* call is running
StepsLeft ==
    CASE pc = "idle"           -> 0
      [] pc = "return"         -> 1
      [] pc = "failJob"        -> 2
      [] pc = "completeJob"    -> 3
      [] pc = "startJob"       -> NumTerms * StepsOfTerm + 8
      [] pc = "agreement"      -> NumTerms * StepsOfTerm + 7
      [] pc = "delayAgreement" -> NumTerms * StepsOfTerm + 6
      [] pc = "searchPage"     -> NumTerms * StepsOfTerm + 5
      [] OTHER -> (NumTerms - searchIdx) * StepsOfTerm + StepsLeftInTerm + 4

\* every step of a running call brings the end of the call nearer
StepTowardsEnd == pc # "idle" => (StepsLeft' < StepsLeft /\ StepsLeft' >= 0)

\* C6: a run that passes the initial page load attempts every term exactly once in
\* the fixed order, whichever terms fail, and then the call ends: a running call can
\* always take a step, and each step lowers a bound on the steps that are left
C6_EveryTermAttemptedThenEnds ==
    /\ []C6_State
    /\ [][StepTowardsEnd]_vars
    /\ [](pc # "idle" => ENABLED NextSweep)

C6_Witness ==
    /\ Finished
    /\ Len(attempted) = NumTerms
    /\ failStreak >= 2
    /\ JobOfRun.status = "completed"

\* C7: when re-establishment has failed, the finished run's job is not 'completed'
C7_ReestablishFailureFailsJob ==
    (Finished /\ reestablishFailed) => JobOfRun.status # "completed"

\* the step in which a re-establishment request fails abandons the current term only
FailedReestablishStep ==
    event' = "reestablishFailed" =>
        /\ pc' = "delay"
        /\ searchIdx' = searchIdx
        /\ hiddenFields' = hiddenFields /\ cookies' = cookies
        /\ error' = error

\* the step after it moves to the next term with the session as it is held
StepAfterFailedReestablish ==
    event = "reestablishFailed" =>
        /\ searchIdx' = searchIdx + 1
        /\ session' = session
        /\ pc' = IF searchIdx < NumTerms THEN "search" ELSE "completeJob"

\* C8: a failed re-establishment abandons only the current term; the run goes on to
\* the next term with the cookies and hidden fields it holds, and every remaining
\* term is attempted
C8_ReestablishFailureAbandonsTermOnly ==
    /\ [][FailedReestablishStep /\ StepAfterFailedReestablish]_vars
    /\ []((reestablishFailed /\ pc \in {"completeJob", "failJob", "return", "idle"})
             => Len(attempted) = NumTerms)

C8_Witness ==
    /\ reestablishFailed
    /\ event = "searchOk"
    /\ searchIdx > ReestablishThreshold

\* C9: after a structural failure of the first search page no search was requested,
\* no record was inserted and the job is 'failed' with the structural message
C9_StructuralFailureFailsJob ==
    (Finished /\ error \in {ErrNoHidden, ErrNoForm}) =>
        /\ attempted = <<>>
        /\ totalInserted = 0
        /\ JobOfRun.status = "failed"
        /\ JobOfRun.error_message = error

----------------------------------------------------------------------------
(* The same scraper called again and again against one set of mocked responses *)

InitRerun ==
    /\ source \in SweepSources
    /\ scrape_jobs = <<>>
    /\ scraped_cpas = EmptyBag
    /\ mocked = TRUE /\ mock \in Mocks /\ site = PlainSite
    /\ RunIdle /\ OthersIdle

\* fewer than ReestablishThreshold terms are mocked: no run re-establishes its session
NextRerun == CallScrape \/ JobSteps \/ LoadSteps \/ TermSteps

SpecRerun == InitRerun /\ [][NextRerun]_vars

\* the i-th call returned counts, and every record it found was handled: no SELECT
\* and no INSERT of a record failed in it
CleanRun(i) ==
    /\ returned[i].kind = "return"
    /\ returned[i].found = returned[i].inserted + returned[i].skipped

\* the persons the mocked responses list, by identity hash
MockedHashes ==
    IF ~mock.searchPage.ok \/ (IsBC /\ ~mock.agreement.ok) THEN {}
    ELSE UNION {{nameHashOf(mock.terms[k].page.rows[j]) :
                    j \in 1..Len(mock.terms[k].page.rows)} :
                k \in {t \in 1..RerunTerms : mock.terms[t].ok}}

\* all hashes of the store
StoredHashes == {r.name_hash : r \in BagToSet(scraped_cpas)}

----------------------------------------------------------------------------
(* CPAOntarioScraper.scrape *)

\* dbClient is one pg Client: it answers the queries submitted to it one at a time,
\* in the order of their submission.  An entry carries the values bound to the query
\* when it was submitted.
Query(by, op, name, found, inserted, skipped) ==
    [by |-> by, op |-> op, name |-> name,
     found |-> found, inserted |-> inserted, skipped |-> skipped]
\* a query the awaiting scrape() call submitted
MainQuery(op, name) == Query("main", op, name, totalFound, totalInserted, totalSkipped)
\* a query a not-awaited _insertRecord call submitted
TaskQuery(op, name) == Query("task", op, name, 0, 0, 0)

\* the query dbClient answers next
HeadIs(by, op) == queue # <<>> /\ Head(queue).by = by /\ Head(queue).op = op

NameAnna == <<"A","n","n","a">>
NameANNA == <<"A","N","N","A">>

\* table rows and embedded {"records":[...]} names of a result page
OntarioRowOptions == {<<>>, <<NameAnna>>, <<NameAnna, NameANNA>>, <<NameBo, NameAnna>>}
OntarioJsonOptions == {<<>>, <<NameAnna>>, <<<<>>, NameBo>>}

OntarioPage(r, j) == [rows |-> r, json |-> j]
OntarioFailure == [ok |-> FALSE, setCookie |-> <<>>, page |-> OntarioPage(<<>>, <<>>)]
\* answers to GET baseUrl
OntarioPageResponses ==
    {OntarioFailure} \cup {Response(c, OntarioPage(<<>>, <<>>)) : c \in SetCookieOptions}
\* answers to GET baseUrl?lastName=...
OntarioSearchResponses ==
    {OntarioFailure} \cup {Response(<<>>, OntarioPage(r, j)) :
                               r \in OntarioRowOptions, j \in OntarioJsonOptions}

\* if (name && name.length > 3 && name.length < 80)
validRowName(name) == Len(name) > 3 /\ Len(name) < 80
\* if (name)
nonEmptyName(name) == name # <<>>

\* what the Ontario run leaves alone
ontarioFrame == <<consecutiveErrors, hiddenFields, failStreak, reestablishFailed, wire,
                  persistFailed, source, mocked, mock, site, quebecVars, orchVars, apiVars>>

\* new CPAOntarioScraper().scrape(dbClient) is called, once: _startJob submits its INSERT
OntarioCallScrape ==
    /\ pc = "idle" /\ returned = <<>>
    /\ pc' = "startJob"
    /\ jobId' = 0
    /\ totalFound' = 0 /\ totalInserted' = 0 /\ totalSkipped' = 0
    /\ cookies' = <<>> /\ searchIdx' = 0 /\ records' = <<>> /\ error' = ""
    /\ attempted' = <<>>
    /\ queue' = Append(queue, Query("main", "startJob", <<>>, 0, 0, 0))
    /\ event' = "called"
    /\ UNCHANGED <<dbVars, returned, ontarioFrame>>

\* const jobId = await this._startJob(dbClient), the INSERT succeeding
OntarioStartJob ==
    /\ pc = "startJob" /\ HeadIs("main", "startJob")
    /\ queue' = Tail(queue)
    /\ scrape_jobs' = Append(scrape_jobs, JobRow(source))
    /\ jobId' = Len(scrape_jobs) + 1
    /\ pc' = "ontPage"
    /\ event' = "jobStarted"
    /\ UNCHANGED <<scraped_cpas, counters, cookies, searchIdx, records, error, attempted,
                   returned, ontarioFrame>>

\* the INSERT of _startJob rejects: scrape() rejects before its try block
OntarioStartJobFails ==
    /\ pc = "startJob" /\ HeadIs("main", "startJob")
    /\ queue' = Tail(queue)
    /\ pc' = "idle"
    /\ returned' = Append(returned, [kind |-> "throw", jobId |-> 0, found |-> 0,
                                     inserted |-> 0, skipped |-> 0, message |-> ErrDb])
    /\ event' = "threw"
    /\ UNCHANGED <<dbVars, jobId, counters, cookies, searchIdx, records, error, attempted,
                   ontarioFrame>>

\* throw inside the outer try: the catch submits the UPDATE of _failJob
OntarioFatal(msg, ev, q) ==
    /\ error' = msg
    /\ pc' = "failJob"
    /\ event' = ev
    /\ queue' = Append(q, MainQuery("failJob", <<>>))

\* step 1: GET baseUrl
OntarioLoadPage ==
    /\ pc = "ontPage"
    /\ \E res \in OntarioPageResponses :
         IF res.ok
         THEN /\ cookies' = extractCookies(res.setCookie)
              /\ pc' = "ontSearch"
              /\ searchIdx' = 1
              /\ event' = "pageOk"
              /\ UNCHANGED <<error, queue>>
         ELSE /\ OntarioFatal(ErrNetwork, "pageFailed", queue)
              /\ UNCHANGED <<cookies, searchIdx>>
    /\ UNCHANGED <<dbVars, jobId, counters, records, attempted, returned, ontarioFrame>>

\* the SELECT queries of the _insertRecord calls started for the rows, in row order
RowTasks(rows) ==
    LET valid == SelectSeq(rows, validRowName)
    IN  [i \in 1..Len(valid) |-> TaskQuery("select", valid[i])]

\* GET baseUrl?lastName=...: every valid table row starts an _insertRecord call that is
\* not awaited; the embedded records are inserted one by one, each awaited
OntarioSearch ==
    /\ pc = "ontSearch"
    /\ attempted' = Append(attempted, <<"longNames", searchIdx>>)
    /\ \E res \in OntarioSearchResponses :
         IF ~res.ok
         THEN /\ pc' = "ontDelay"
              /\ event' = "searchFailed"
              /\ UNCHANGED <<totalFound, records, queue>>
         ELSE LET tasks == RowTasks(res.page.rows)
                  recs == SelectSeq(res.page.json, nonEmptyName)
              IN  /\ records' = recs
                  /\ event' = "searchOk"
                  /\ IF recs = <<>>
                     THEN /\ totalFound' = totalFound + Len(tasks)
                          /\ queue' = queue \o tasks
                          /\ pc' = "ontDelay"
                     ELSE /\ totalFound' = totalFound + Len(tasks) + 1
                          /\ queue' = Append(queue \o tasks,
                                             Query("main", "select", Head(recs), 0, 0, 0))
                          /\ pc' = "ontJson"
    /\ UNCHANGED <<dbVars, jobId, totalInserted, totalSkipped, cookies, searchIdx, error,
                   returned, ontarioFrame>>

\* the next embedded record, its SELECT submitted, or the end of the try block
NextJsonRecord(q) ==
    /\ records' = Tail(records)
    /\ IF Tail(records) = <<>>
       THEN /\ pc' = "ontDelay"
            /\ queue' = q
            /\ UNCHANGED totalFound
       ELSE /\ pc' = "ontJson"
            /\ totalFound' = totalFound + 1
            /\ queue' = Append(q, Query("main", "select", Head(Tail(records)), 0, 0, 0))

\* awaited _insertRecord of an embedded record: its SELECT is answered
JsonSelect ==
    /\ pc = "ontJson" /\ HeadIs("main", "select")
    /\ IF SelectByHash(scraped_cpas, nameHashOf(Head(queue).name)) # {}
       THEN /\ totalSkipped' = totalSkipped + 1
            /\ event' = "skipped"
            /\ NextJsonRecord(Tail(queue))
       ELSE /\ queue' = Append(Tail(queue), Query("main", "insert", Head(queue).name, 0, 0, 0))
            /\ event' = "notStored"
            /\ UNCHANGED <<pc, records, totalFound, totalSkipped>>
    /\ UNCHANGED <<dbVars, jobId, totalInserted, cookies, searchIdx, error, attempted,
                   returned, ontarioFrame>>

\* awaited _insertRecord of an embedded record: its INSERT is answered
JsonInsert ==
    /\ pc = "ontJson" /\ HeadIs("main", "insert")
    /\ scraped_cpas' = scraped_cpas (+) SetToBag({CpaRow(source, Head(queue).name,
                                                  nameHashOf(Head(queue).name), jobId)})
    /\ totalInserted' = totalInserted + 1
    /\ event' = "inserted"
    /\ NextJsonRecord(Tail(queue))
    /\ UNCHANGED <<scrape_jobs, jobId, totalSkipped, cookies, searchIdx, error, attempted,
                   returned, ontarioFrame>>

\* a query of an awaited _insertRecord rejects: catch (parseErr) skips the rest
JsonQueryFails ==
    /\ pc = "ontJson" /\ queue # <<>> /\ Head(queue).by = "main"
    /\ queue' = Tail(queue)
    /\ records' = <<>>
    /\ pc' = "ontDelay"
    /\ event' = "recordFailed"
    /\ UNCHANGED <<dbVars, jobId, counters, cookies, searchIdx, error, attempted,
                   returned, ontarioFrame>>

\* _insertRecord of a table row: its SELECT is answered; .then counts a skip
TaskSelect ==
    /\ pc # "crashed" /\ HeadIs("task", "select")
    /\ IF SelectByHash(scraped_cpas, nameHashOf(Head(queue).name)) # {}
       THEN /\ totalSkipped' = totalSkipped + 1
            /\ queue' = Tail(queue)
            /\ event' = "skipped"
       ELSE /\ queue' = Append(Tail(queue), TaskQuery("insert", Head(queue).name))
            /\ event' = "notStored"
            /\ UNCHANGED totalSkipped
    /\ UNCHANGED <<dbVars, pc, jobId, totalFound, totalInserted, cookies, searchIdx, records,
                   error, attempted, returned, ontarioFrame>>

\* _insertRecord of a table row: its INSERT is answered; .then counts an insertion
TaskInsert ==
    /\ pc # "crashed" /\ HeadIs("task", "insert")
    /\ scraped_cpas' = scraped_cpas (+) SetToBag({CpaRow(source, Head(queue).name,
                                                  nameHashOf(Head(queue).name), jobId)})
    /\ totalInserted' = totalInserted + 1
    /\ queue' = Tail(queue)
    /\ event' = "inserted"
    /\ UNCHANGED <<scrape_jobs, pc, jobId, totalFound, totalSkipped, cookies, searchIdx,
                   records, error, attempted, returned, ontarioFrame>>

\* a query of a not-awaited _insertRecord rejects.  Nothing handles the rejection: the
\* runtime either only warns or ends the process, by its unhandled-rejections mode
TaskQueryFails ==
    /\ pc # "crashed" /\ queue # <<>> /\ Head(queue).by = "task"
    /\ event' = "unhandledRejection"
    /\ \E ends \in BOOLEAN :
         IF ends THEN pc' = "crashed" /\ queue' = <<>>
                 ELSE pc' = pc /\ queue' = Tail(queue)
    /\ UNCHANGED <<dbVars, jobId, counters, cookies, searchIdx, records, error, attempted,
                   returned, ontarioFrame>>

\* await delay(5000) at the end of one name, then the loop condition; after the last
\* name _completeJob submits its UPDATE with the counts as they are then
OntarioDelay ==
    /\ pc = "ontDelay"
    /\ searchIdx' = searchIdx + 1
    /\ event' = "delay"
    /\ IF searchIdx + 1 > OntarioTerms
       THEN /\ pc' = "completeJob"
            /\ queue' = Append(queue, MainQuery("completeJob", <<>>))
       ELSE /\ pc' = "ontSearch"
            /\ UNCHANGED queue
    /\ UNCHANGED <<dbVars, jobId, counters, cookies, records, error, attempted, returned,
                   ontarioFrame>>

\* await this._completeJob(...), the UPDATE succeeding; if (totalFound === 0) the note
\* about the single-page application is written to the console
OntarioCompleteJob ==
    /\ pc = "completeJob" /\ HeadIs("main", "completeJob")
    /\ scrape_jobs' = completeJobRow(scrape_jobs, jobId, Head(queue).found,
                                     Head(queue).inserted, Head(queue).skipped)
    /\ queue' = Tail(queue)
    /\ pc' = "return"
    /\ event' = IF totalFound = 0 THEN "completedWithConsoleNote" ELSE "completed"
    /\ UNCHANGED <<scraped_cpas, jobId, counters, cookies, searchIdx, records, error,
                   attempted, returned, ontarioFrame>>

\* the UPDATE of _completeJob rejects inside the try block: the outer catch runs
OntarioCompleteJobFails ==
    /\ pc = "completeJob" /\ HeadIs("main", "completeJob")
    /\ OntarioFatal(ErrDb, "completeFailed", Tail(queue))
    /\ UNCHANGED <<dbVars, jobId, counters, cookies, searchIdx, records, attempted,
                   returned, ontarioFrame>>

\* await this._failJob(dbClient, jobId, error.message), the UPDATE succeeding
OntarioFailJob ==
    /\ pc = "failJob" /\ HeadIs("main", "failJob")
    /\ scrape_jobs' = failJobRow(scrape_jobs, jobId, error)
    /\ queue' = Tail(queue)
    /\ pc' = "return"
    /\ event' = "failed"
    /\ UNCHANGED <<scraped_cpas, jobId, counters, cookies, searchIdx, records, error,
                   attempted, returned, ontarioFrame>>

\* the UPDATE of _failJob rejects inside the catch block: scrape() rejects
OntarioFailJobFails ==
    /\ pc = "failJob" /\ HeadIs("main", "failJob")
    /\ queue' = Tail(queue)
    /\ pc' = "idle"
    /\ returned' = Append(returned, [kind |-> "throw", jobId |-> jobId, found |-> totalFound,
                                     inserted |-> totalInserted, skipped |-> totalSkipped,
                                     message |-> ErrDb])
    /\ event' = "threw"
    /\ UNCHANGED <<dbVars, jobId, counters, cookies, searchIdx, records, error, attempted,
                   ontarioFrame>>

\* return { found: totalFound, inserted: totalInserted, skipped: totalSkipped }
OntarioReturn ==
    /\ pc = "return"
    /\ pc' = "idle"
    /\ returned' = Append(returned, [kind |-> "return", jobId |-> jobId, found |-> totalFound,
                                     inserted |-> totalInserted, skipped |-> totalSkipped,
                                     message |-> ""])
    /\ event' = "returned"
    /\ UNCHANGED <<dbVars, jobId, counters, cookies, searchIdx, records, error, attempted,
                   queue, ontarioFrame>>

InitOntario ==
    /\ source = "cpaontario"
    /\ scrape_jobs = <<>>
    /\ scraped_cpas = EmptyBag
    /\ mocked = FALSE /\ mock = NoMock /\ site = PlainSite
    /\ RunIdle /\ OthersIdle

OntarioJobSteps == OntarioStartJob \/ OntarioStartJobFails \/ OntarioCompleteJob
                     \/ OntarioCompleteJobFails \/ OntarioFailJob \/ OntarioFailJobFails
                     \/ OntarioReturn
OntarioJsonSteps == JsonSelect \/ JsonInsert \/ JsonQueryFails
OntarioTaskSteps == TaskSelect \/ TaskInsert \/ TaskQueryFails

NextOntario == OntarioCallScrape \/ OntarioJobSteps \/ OntarioLoadPage \/ OntarioSearch
                 \/ OntarioJsonSteps \/ OntarioTaskSteps \/ OntarioDelay

SpecOntario == InitOntario /\ [][NextOntario]_vars

\* C2: the store never holds two records with the same identity hash
C2_NoTwoRecordsWithOneHash ==
    \A h \in StoredHashes : HashCount(scraped_cpas, h) = 1

\* a run of CPAOntarioScraper has completed its job without finding a record
ZeroResultRun(i) ==
    /\ returned[i].kind = "return" /\ returned[i].found = 0
    /\ scrape_jobs[returned[i].jobId].source = "cpaontario"
    /\ scrape_jobs[returned[i].jobId].status = "completed"

\* C25: when a run of CPAOntarioScraper finds zero records, its job record carries a note
\* that tells the limitation of the single-page application, so that the row differs from
\* the row of an ordinary completed run
C25_ZeroResultNoteInJobRecord ==
    \A i \in 1..Len(returned) :
        ZeroResultRun(i) =>
            /\ scrape_jobs[returned[i].jobId].error_message # ""
            /\ scrape_jobs[returned[i].jobId] #
                   completeJobRow(<<JobRow("cpaontario")>>, 1, 0, 0, 0)[1]

----------------------------------------------------------------------------
(* CPAQuebecScraper.scrape *)

ErrCaptcha == "reCAPTCHA protection blocks automated scraping. Need CAPTCHA solving service."

\* hasMore = records.length >= 10 && page < 50
PageSize == 10
PageCap == 50
\* testData.length < 200
ShortResponse == 200

NameJean == <<"J","e","a","n">>
FullPage == [i \in 1..PageSize |-> NameJean]
\* the names of the records of one result page; a record may have no name
QuebecRecordOptions == {<<>>, <<NameJean>>, <<<<>>, NameJean>>, FullPage}

\* answers to GET the directory page: does the page include 'recaptcha'
QuebecPageResponses ==
    {[ok |-> FALSE, setCookie |-> <<>>, recaptcha |-> FALSE]}
      \cup {[ok |-> TRUE, setCookie |-> c, recaptcha |-> m] :
                c \in SetCookieOptions, m \in BOOLEAN}
\* answers to the test POST: does the body include 'window.location', and its length
QuebecTestResponses ==
    {[ok |-> FALSE, redirect |-> FALSE, length |-> 0]}
      \cup {[ok |-> TRUE, redirect |-> r, length |-> n] :
                r \in BOOLEAN, n \in {ShortResponse - 80, 20 * ShortResponse}}
\* answers to a search POST
QuebecSearchResponses ==
    {[ok |-> FALSE, setCookie |-> <<>>, records |-> <<>>]}
      \cup {[ok |-> TRUE, setCookie |-> c, records |-> r] :
                c \in SetCookieOptions, r \in QuebecRecordOptions}

\* what the Quebec run leaves alone
quebecFrame == <<consecutiveErrors, hiddenFields, failStreak, reestablishFailed, wire,
                 persistFailed, source, mocked, mock, site, ontarioVars, orchVars, apiVars, returned, jobId>>

\* GET the directory page; a reCAPTCHA marker in it is logged and nothing else
QuebecLoadPage ==
    /\ pc = "qcPage"
    /\ \E res \in QuebecPageResponses :
         IF res.ok
         THEN /\ cookies' = extractCookies(res.setCookie)
              /\ captchaSeen' = IF res.recaptcha THEN captchaSeen \cup {"marker"}
                                                ELSE captchaSeen
              /\ pc' = "qcTest"
              /\ event' = "pageOk"
              /\ UNCHANGED error
         ELSE /\ Fatal(ErrNetwork, "pageFailed")
              /\ UNCHANGED <<cookies, captchaSeen>>
    /\ UNCHANGED <<dbVars, counters, searchIdx, records, attempted, page, hasMore,
                   quebecFrame>>

\* if (testData.includes('window.location') || testData.length < 200)
blocked(res) == res.redirect \/ res.length < ShortResponse

\* the test POST for 'Smith': a redirect or a short body means the wall is enforced
QuebecTestSearch ==
    /\ pc = "qcTest"
    /\ \E res \in QuebecTestResponses :
         IF ~res.ok
         THEN /\ Fatal(ErrNetwork, "pageFailed")
              /\ UNCHANGED <<captchaSeen, searchIdx, page, hasMore>>
         ELSE IF blocked(res)
              THEN /\ captchaSeen' = captchaSeen \cup {"blocked"}
                   /\ pc' = "qcFailBlocked"
                   /\ event' = "blocked"
                   /\ UNCHANGED <<error, searchIdx, page, hasMore>>
              ELSE /\ pc' = "qcSearch"
                   /\ searchIdx' = 1
                   /\ page' = 0 /\ hasMore' = TRUE
                   /\ event' = "probeOk"
                   /\ UNCHANGED <<error, captchaSeen>>
    /\ UNCHANGED <<dbVars, counters, cookies, records, attempted, quebecFrame>>

\* await this._failJob(dbClient, jobId, 'reCAPTCHA ...'), the UPDATE succeeding; then
\* return { found: 0, inserted: 0, skipped: 0 }
QuebecFailBlocked ==
    /\ pc = "qcFailBlocked"
    /\ scrape_jobs' = failJobRow(scrape_jobs, jobId, ErrCaptcha)
    /\ pc' = "return"
    /\ event' = "failed"
    /\ UNCHANGED <<scraped_cpas, counters, cookies, searchIdx, records, error, attempted,
                   quebecVars, quebecFrame>>

\* that UPDATE rejects inside the try block: the outer catch runs
QuebecFailBlockedFails ==
    /\ pc = "qcFailBlocked"
    /\ Fatal(ErrDb, "failBlockedFailed")
    /\ UNCHANGED <<dbVars, counters, cookies, searchIdx, records, attempted,
                   quebecVars, quebecFrame>>

\* the end of one result page: page++, then another page or the end of the name
PageDone ==
    /\ page' = page + 1
    /\ pc' = IF hasMore THEN "qcPageDelay" ELSE "qcDelay"

\* variant: a page loop without the cap on the page number
morePagesUncapped(n, p) == n >= PageSize

\* hasMore = records.length >= 10 && page < 50
morePages(n, p) == n >= PageSize /\ p < PageCap

\* POST one page of one last name.  hasMore depends on the page's record count and on
\* page only, so it is fixed here, before the records are stored
QuebecSearch ==
    /\ pc = "qcSearch"
    /\ attempted' = Append(attempted, <<searchIdx, page>>)
    /\ \E res \in QuebecSearchResponses :
         IF ~res.ok
         THEN /\ pc' = "qcDelay"
              /\ event' = "searchFailed"
              /\ UNCHANGED <<cookies, totalFound, records, page, hasMore>>
         ELSE LET newCookies == extractCookies(res.setCookie)
                  more == morePages(Len(res.records), page)
                  named == SelectSeq(res.records, nonEmptyName)
              IN  /\ cookies' = IF newCookies # <<>> THEN newCookies ELSE cookies
                  /\ totalFound' = totalFound + Len(res.records)
                  /\ records' = named
                  /\ hasMore' = more
                  /\ event' = "searchOk"
                  /\ IF named = <<>>
                     THEN /\ page' = page + 1
                          /\ pc' = IF more THEN "qcPageDelay" ELSE "qcDelay"
                     ELSE /\ pc' = "qcDedup"
                          /\ UNCHANGED page
    /\ UNCHANGED <<dbVars, totalInserted, totalSkipped, searchIdx, error, captchaSeen,
                   quebecFrame>>

\* after one record: the next record, or the end of the page
QuebecNextRecord ==
    /\ records' = Tail(records)
    /\ IF Tail(records) = <<>> THEN PageDone ELSE pc' = "qcDedup" /\ UNCHANGED page

\* SELECT id FROM scraped_cpas WHERE name_hash = $1, the query succeeding
QuebecDedupCheck ==
    /\ pc = "qcDedup"
    /\ IF SelectByHash(scraped_cpas, nameHashOf(Head(records))) # {}
       THEN /\ totalSkipped' = totalSkipped + 1
            /\ event' = "skipped"
            /\ QuebecNextRecord
       ELSE /\ pc' = "qcInsert"
            /\ event' = "notStored"
            /\ UNCHANGED <<totalSkipped, records, page>>
    /\ UNCHANGED <<dbVars, totalFound, totalInserted, cookies, searchIdx, error, attempted,
                   hasMore, captchaSeen, quebecFrame>>

\* INSERT INTO scraped_cpas ..., the query succeeding
QuebecInsertRecord ==
    /\ pc = "qcInsert"
    /\ scraped_cpas' = scraped_cpas
           (+) SetToBag({CpaRow(source, Head(records), nameHashOf(Head(records)), jobId)})
    /\ totalInserted' = totalInserted + 1
    /\ event' = "inserted"
    /\ QuebecNextRecord
    /\ UNCHANGED <<scrape_jobs, totalFound, totalSkipped, cookies, searchIdx, error,
                   attempted, hasMore, captchaSeen, quebecFrame>>

\* the SELECT or the INSERT of a record rejects: the catch of the name logs it
QuebecRecordQueryFails ==
    /\ pc \in {"qcDedup", "qcInsert"}
    /\ records' = <<>>
    /\ pc' = "qcDelay"
    /\ event' = "recordFailed"
    /\ UNCHANGED <<dbVars, counters, cookies, searchIdx, error, attempted, quebecVars,
                   quebecFrame>>

\* if (hasMore) await delay(2000), then the next page of the same name
QuebecPageDelay ==
    /\ pc = "qcPageDelay"
    /\ pc' = "qcSearch"
    /\ event' = "delay"
    /\ UNCHANGED <<dbVars, counters, cookies, searchIdx, records, error, attempted,
                   quebecVars, quebecFrame>>

\* await delay(3000) at the end of one name, then the loop condition
QuebecDelay ==
    /\ pc = "qcDelay"
    /\ searchIdx' = searchIdx + 1
    /\ page' = 0 /\ hasMore' = TRUE
    /\ pc' = IF searchIdx + 1 > QuebecTerms THEN "completeJob" ELSE "qcSearch"
    /\ event' = "delay"
    /\ UNCHANGED <<dbVars, counters, cookies, records, error, attempted, captchaSeen,
                   quebecFrame>>

InitQuebec ==
    /\ source = "cpaquebec"
    /\ scrape_jobs = <<>>
    /\ scraped_cpas = EmptyBag
    /\ mocked = FALSE /\ mock = NoMock /\ site = PlainSite
    /\ RunIdle /\ OthersIdle

QuebecProbeSteps == QuebecLoadPage \/ QuebecTestSearch \/ QuebecFailBlocked
                      \/ QuebecFailBlockedFails
QuebecTermSteps == QuebecSearch \/ QuebecDedupCheck \/ QuebecInsertRecord
                     \/ QuebecRecordQueryFails \/ QuebecPageDelay \/ QuebecDelay

NextQuebec == CallScrape \/ JobSteps \/ QuebecProbeSteps \/ QuebecTermSteps

SpecQuebec == InitQuebec /\ [][NextQuebec]_vars

\* C10: whenever a probe response carried the CAPTCHA marker, no enumeration request
\* is issued and the finished job is 'failed' with the reCAPTCHA reason
C10_CaptchaFailsJobAtOnce ==
    captchaSeen # {} =>
        /\ attempted = <<>>
        /\ Finished => (JobOfRun.status = "failed" /\ JobOfRun.error_message = ErrCaptcha)

----------------------------------------------------------------------------
(* CPAScraperOrchestrator.runAll *)

\* Object.entries(this.scrapers): the registered sources in their insertion order
Scrapers == <<"cpabc", "cpaalberta", "cpask", "cpamb", "cpaontario", "cpaquebec",
              "cpanb", "cpans", "cpapei", "cpanl">>

\* How one awaited scraper.scrape(dbClient) call ends, with the job row it leaves: it
\* returns its counts with the job 'completed' or 'failed', or it rejects, which every
\* scraper does when the UPDATE of _failJob rejects, the job then being left 'running'
ScrapeOutcomes ==
    {[kind |-> "return", found |-> 2, inserted |-> 1, skipped |-> 1, message |-> "",
      status |-> "completed"],
     [kind |-> "return", found |-> 2, inserted |-> 0, skipped |-> 2, message |-> "",
      status |-> "completed"],
     [kind |-> "return", found |-> 0, inserted |-> 0, skipped |-> 0, message |-> ErrNetwork,
      status |-> "failed"],
     [kind |-> "throw", found |-> 0, inserted |-> 0, skipped |-> 0, message |-> ErrDb,
      status |-> "running"]}

\* the job row a finished scrape() call leaves
JobRowOf(s, out) ==
    [JobRow(s) EXCEPT !.status = out.status,
                      !.records_found = out.found, !.records_inserted = out.inserted,
                      !.records_skipped = out.skipped,
                      !.error_message = IF out.status = "failed" THEN out.message ELSE ""]

\* the person the directory of source s lists (twice) in a completed scrape
ListedHash(s) == generateNameHash(NameAl, Province(s))

\* a completed scrape inserts the listed person unless the dedup check finds it stored
Possible(s, out) ==
    out.status = "completed" =>
        (out.inserted = 1 <=> SelectByHash(scraped_cpas, ListedHash(s)) = {})

\* the rows of scraped_cpas after a scrape of source s that ended as out, its job being job
StoreAfter(s, out, job) ==
    IF out.inserted = 1
    THEN scraped_cpas (+) SetToBag({CpaRow(s, NameAl, ListedHash(s), job)})
    ELSE scraped_cpas

\* what runAll leaves alone
orchFrame == <<counters, error, sweepVars, ontarioVars, quebecVars>>

\* runAll(dbClient) is called: const results = {}
CallRunAll ==
    /\ pc = "idle" /\ runAllOutcome = "none"
    /\ results' = <<>>
    /\ scraperIdx' = 1
    /\ source' = Scrapers[1]
    /\ pc' = "runAll"
    /\ event' = "called"
    /\ UNCHANGED <<dbVars, jobId, returned, runAllOutcome, orchFrame, apiVars>>

\* variant: a runAll that lets the exception of a scraper escape
RunAllRethrow(msg) ==
    /\ runAllOutcome' = "threw"
    /\ pc' = "idle"
    /\ UNCHANGED <<results, scraperIdx, source>>

\* the next entry of Object.entries(this.scrapers), if there is one
NextScraper ==
    /\ scraperIdx' = scraperIdx + 1
    /\ source' = IF scraperIdx < Len(Scrapers) THEN Scrapers[scraperIdx + 1] ELSE source
    /\ pc' = "runAll"
    /\ UNCHANGED runAllOutcome

\* catch (error) { results[source] = { error: error.message } }
RunAllCatch(msg) ==
    /\ results' = (source :> [error |-> msg]) @@ results
    /\ NextScraper

\* results[source] = await scraper.scrape(dbClient), the call returning its counts
RunAllScrape ==
    /\ pc = "runAll" /\ scraperIdx <= Len(Scrapers)
    /\ \E out \in {o \in ScrapeOutcomes : o.kind = "return" /\ Possible(source, o)} :
         /\ scrape_jobs' = Append(scrape_jobs, JobRowOf(source, out))
         /\ scraped_cpas' = StoreAfter(source, out, Len(scrape_jobs) + 1)
         /\ returned' = Append(returned, [kind |-> "return", jobId |-> Len(scrape_jobs) + 1,
                                          found |-> out.found, inserted |-> out.inserted,
                                          skipped |-> out.skipped, message |-> ""])
         /\ results' = (source :> [found |-> out.found, inserted |-> out.inserted,
                                   skipped |-> out.skipped]) @@ results
    /\ jobId' = Len(scrape_jobs) + 1
    /\ NextScraper
    /\ event' = "returned"
    /\ UNCHANGED <<orchFrame, apiVars>>

\* await scraper.scrape(dbClient) rejects: the catch of runAll records the message
RunAllScrapeThrows ==
    /\ pc = "runAll" /\ scraperIdx <= Len(Scrapers)
    /\ \E out \in {o \in ScrapeOutcomes : o.kind = "throw"} :
         /\ scrape_jobs' = Append(scrape_jobs, JobRowOf(source, out))
         /\ returned' = Append(returned, [kind |-> "throw", jobId |-> Len(scrape_jobs) + 1,
                                          found |-> out.found, inserted |-> out.inserted,
                                          skipped |-> out.skipped, message |-> out.message])
         /\ RunAllCatch(out.message)
    /\ jobId' = Len(scrape_jobs) + 1
    /\ event' = "threw"
    /\ UNCHANGED <<scraped_cpas, orchFrame, apiVars>>

\* return results, after the last scraper
RunAllReturn ==
    /\ pc = "runAll" /\ scraperIdx > Len(Scrapers)
    /\ runAllOutcome' = "returned"
    /\ scraperIdx' = 0
    /\ pc' = "idle"
    /\ event' = "returned"
    /\ UNCHANGED <<dbVars, jobId, source, returned, results, orchFrame, apiVars>>

InitOrch ==
    /\ source = Scrapers[1]
    /\ scrape_jobs = <<>>
    /\ scraped_cpas = EmptyBag
    /\ mocked = FALSE /\ mock = NoMock /\ site = PlainSite
    /\ RunIdle /\ OthersIdle

NextOrch == CallRunAll \/ RunAllScrape \/ RunAllScrapeThrows \/ RunAllReturn

SpecOrch == InitOrch /\ [][NextOrch]_vars

\* the sources whose scrape() call has ended
ScrapersRun == {Scrapers[i] : i \in 1..Len(returned)}

\* C4: runAll does not throw because a scraper failed; a scraper whose scrape() threw
\* is recorded as {error} under its source and the scrapers after it are still run;
\* the result runAll returns has exactly one entry for each of the 10 registered sources
C4_RunAllIsolatesScraperFailures ==
    /\ runAllOutcome # "threw"
    /\ Len(returned) <= Len(Scrapers)
    /\ DOMAIN results = ScrapersRun
    /\ \A i \in 1..Len(returned) :
          /\ scrape_jobs[i].source = Scrapers[i]
          /\ IF returned[i].kind = "throw"
             THEN results[Scrapers[i]] = [error |-> returned[i].message]
             ELSE results[Scrapers[i]] = [found |-> returned[i].found,
                                          inserted |-> returned[i].inserted,
                                          skipped |-> returned[i].skipped]
    /\ pc = "runAll" => Len(returned) = scraperIdx - 1
    /\ runAllOutcome = "returned" =>
          /\ Len(returned) = Len(Scrapers)
          /\ Cardinality(DOMAIN results) = 10
          /\ DOMAIN results = {Scrapers[i] : i \in 1..Len(Scrapers)}

C4_Witness ==
    /\ runAllOutcome = "returned"
    /\ returned[1].kind = "throw"
    /\ results[Scrapers[1]] = [error |-> ErrDb]
    /\ returned[Len(Scrapers)].kind = "return"

----------------------------------------------------------------------------
(* A record whose persistence fails *)

\* the step in which the SELECT or the INSERT of one record rejects
RecordFailureStep == pc \in {"dedup", "insert"} /\ event' = "recordFailed"

\* C11: in CPABCScraper and IMISDirectoryScraper, when persisting one record of a
\* result page fails, the remaining records of that page are still processed and
\* the failure does not count toward the consecutive failures that trigger
\* re-establishment
C11_RecordFailureKeepsBatch ==
    [][RecordFailureStep =>
          /\ records' = Tail(records)
          /\ consecutiveErrors' = consecutiveErrors
          /\ pc' \in {"dedup", "delay"}]_vars

----------------------------------------------------------------------------
(* CPAScraperOrchestrator.runSingle and the scrape endpoints of the HTTP API *)

Registered == {Scrapers[i] : i \in 1..Len(Scrapers)}

\* names that are no own property of this.scrapers but are found on Object.prototype
InheritedNames == {"constructor"}

\* the names a caller may pass as source
SourceNames == Registered \cup InheritedNames \cup
               {"all_cpas", "corporations_canada", "statcan_odbus", "email_enrichment",
                "nosuch"}

\* this.scrapers[source]: a scraper, a value inherited from Object.prototype, or undefined
LookupScraper(name) ==
    IF name \in Registered THEN "scraper"
    ELSE IF name \in InheritedNames THEN "inherited"
    ELSE "undefined"

ErrUnknownScraper == "Unknown scraper source"
ErrNotAFunction   == "scraper.scrape is not a function"

\* new Error(`Unknown scraper source: ${source}. Available: ${Object.keys(...).join(', ')}`)
UnknownScraperError(name) ==
    [kind |-> "threw", message |-> ErrUnknownScraper, name |-> name, available |-> Scrapers]
\* the TypeError of calling .scrape on a value that has no such method
NotAFunctionError(name) ==
    [kind |-> "threw", message |-> ErrNotAFunction, name |-> "", available |-> <<>>]
ScrapeError(msg) == [kind |-> "threw", message |-> msg, name |-> "", available |-> <<>>]
Returned == [kind |-> "returned", message |-> "", name |-> "", available |-> <<>>]

Started(src)  == [status |-> 200, body |-> "started", source |-> src, deleted |-> 0]
Cleared(src, n) == [status |-> 200, body |-> "started", source |-> src, deleted |-> n]
BadRequest    == [status |-> 400, body |-> "invalid source", source |-> "", deleted |-> 0]
ServerError   == [status |-> 500, body |-> "error", source |-> "", deleted |-> 0]

\* variant: a trigger handler whose catch answers the request
TriggerCatchResponds == responses' = Append(responses, ServerError)

\* catch of the trigger handler: console.error and nothing else
TriggerCatch == UNCHANGED responses

\* catch of the rescrape handler: if (!res.headersSent) res.status(500).json(...)
RescrapeCatch == responses' = IF responses = <<>> THEN <<ServerError>> ELSE responses

\* where a rejection of the awaited job goes: the caller's catch, if it has one
CatchOf ==
    CASE request.route = "trigger"  -> TriggerCatch
      [] request.route = "rescrape" -> RescrapeCatch
      [] OTHER                      -> UNCHANGED responses

\* runSingle(source, dbClient) up to its first await: the lookup and the guard
RunSingle(name) ==
    IF LookupScraper(name) = "scraper"
    THEN /\ pc' = "runSingleScrape"
         /\ source' = name
         /\ UNCHANGED <<runSingleOutcome, responses>>
    ELSE /\ pc' = "idle"
         /\ runSingleOutcome' = IF LookupScraper(name) = "undefined"
                                THEN UnknownScraperError(name)
                                ELSE NotAFunctionError(name)
         /\ CatchOf
         /\ UNCHANGED source

\* what the orchestrator and the two admin handlers leave alone
adminFrame == <<orchFrame, matchVars, pureVars, batchVars>>

\* cpaScraperOrchestrator.runSingle(name, dbClient) is called by other code
CallRunSingle ==
    /\ pc = "idle" /\ request = NoRequest
    /\ \E name \in SourceNames :
         /\ request' = [route |-> "runSingle", source |-> name]
         /\ RunSingle(name)
    /\ event' = "called"
    /\ UNCHANGED <<dbVars, jobId, returned, orchVars, delIdx, totalDeleted, adminFrame>>

\* return scraper.scrape(dbClient): the scrape of the one scraper ends
RunSingleScrape ==
    /\ pc = "runSingleScrape"
    /\ \E out \in {o \in ScrapeOutcomes : Possible(source, o)} :
         /\ scrape_jobs' = Append(scrape_jobs, JobRowOf(source, out))
         /\ scraped_cpas' = StoreAfter(source, out, Len(scrape_jobs) + 1)
         /\ returned' = Append(returned, [kind |-> out.kind, jobId |-> Len(scrape_jobs) + 1,
                                          found |-> out.found, inserted |-> out.inserted,
                                          skipped |-> out.skipped,
                                          message |-> IF out.kind = "return" THEN ""
                                                      ELSE out.message])
         /\ IF out.kind = "return"
            THEN runSingleOutcome' = Returned /\ UNCHANGED responses
            ELSE runSingleOutcome' = ScrapeError(out.message) /\ CatchOf
         /\ event' = IF out.kind = "return" THEN "returned" ELSE "threw"
    /\ jobId' = Len(scrape_jobs) + 1
    /\ pc' = "idle"
    /\ UNCHANGED <<source, orchVars, request, delIdx, totalDeleted, adminFrame>>

\* const validSources of the trigger handler
validSources == <<"cpabc", "cpaquebec", "cpaontario", "cpaalberta", "cpamb", "cpask",
                  "cpans", "cpanb", "cpapei", "cpanl", "corporations_canada",
                  "statcan_odbus", "email_enrichment", "all_cpas">>
\* const cpaSources of the rescrape handler
cpaSources == <<"cpabc", "cpamb", "cpask", "cpans", "cpanb", "cpapei", "cpanl",
                "cpaalberta">>

includes(list, x) == \E i \in 1..Len(list) : list[i] = x

\* the sources the trigger handler runs without the orchestrator
OtherJobs == {"corporations_canada", "statcan_odbus", "email_enrichment"}

\* await cpaScraperOrchestrator.runAll(dbClient), up to its first await
EnterRunAll ==
    /\ results' = <<>>
    /\ scraperIdx' = 1
    /\ source' = Scrapers[1]
    /\ pc' = "runAll"
    /\ UNCHANGED <<runAllOutcome, runSingleOutcome, responses>>

\* POST /api/scrape/trigger/:source arrives: validation, then the acknowledgement
TriggerRequest ==
    /\ pc = "idle" /\ request = NoRequest
    /\ \E src \in SourceNames :
         /\ request' = [route |-> "trigger", source |-> src]
         /\ IF ~includes(validSources, src)
            THEN responses' = <<BadRequest>> /\ pc' = "idle"
            ELSE responses' = <<Started(src)>> /\ pc' = "triggerRun"
    /\ event' = "request"
    /\ UNCHANGED <<dbVars, source, jobId, returned, orchVars, delIdx, totalDeleted,
                   runSingleOutcome, adminFrame>>

\* the try block of the trigger handler: the job of the source is started
TriggerRun ==
    /\ pc = "triggerRun"
    /\ IF request.source = "all_cpas" THEN EnterRunAll
       ELSE IF request.source \in OtherJobs
            THEN /\ pc' = "otherJob"
                 /\ source' = request.source
                 /\ UNCHANGED <<results, scraperIdx, runAllOutcome, runSingleOutcome,
                                responses>>
            ELSE /\ RunSingle(request.source)
                 /\ UNCHANGED orchVars
    /\ event' = "run"
    /\ UNCHANGED <<dbVars, jobId, returned, request, delIdx, totalDeleted, adminFrame>>

\* corporationsCanadaAPI.scrape, statCanODBusLoader.load or firmWebsiteEnricher.enrich
\* ends: like a scraper it returns with its job 'completed' or 'failed', or it rejects;
\* it writes no person record
OtherJob ==
    /\ pc = "otherJob"
    /\ \E out \in ScrapeOutcomes :
         /\ scrape_jobs' = Append(scrape_jobs, JobRowOf(source, out))
         /\ returned' = Append(returned, [kind |-> out.kind, jobId |-> Len(scrape_jobs) + 1,
                                          found |-> out.found, inserted |-> out.inserted,
                                          skipped |-> out.skipped,
                                          message |-> IF out.kind = "return" THEN ""
                                                      ELSE out.message])
         /\ IF out.kind = "return" THEN UNCHANGED responses ELSE CatchOf
         /\ event' = IF out.kind = "return" THEN "returned" ELSE "threw"
    /\ jobId' = Len(scrape_jobs) + 1
    /\ pc' = "idle"
    /\ UNCHANGED <<scraped_cpas, source, orchVars, request, delIdx, totalDeleted,
                   runSingleOutcome, adminFrame>>

\* the rows of table whose source is s, and their number (rowCount of the DELETE)
RowsOfSource(table, s) == {r \in BagToSet(table) : r.source = s}
CountOfSource(table, s) ==
    LET RECURSIVE Sum(_)
        Sum(S) == IF S = {} THEN 0
                  ELSE LET r == CHOOSE x \in S : TRUE IN table[r] + Sum(S \ {r})
    IN  Sum(RowsOfSource(table, s))

\* DELETE FROM scraped_cpas WHERE source = $1
DeleteSource(table, s) ==
    [r \in BagToSet(table) \ RowsOfSource(table, s) |-> table[r]]

\* const sources = source === 'all_cpas' ? cpaSources : [source]
RescrapeSources == IF request.source = "all_cpas" THEN cpaSources ELSE <<request.source>>

\* POST /api/scrape/rescrape/:source arrives: validation, then the first DELETE is sent
RescrapeRequest ==
    /\ pc = "idle" /\ request = NoRequest
    /\ \E src \in SourceNames :
         /\ request' = [route |-> "rescrape", source |-> src]
         /\ IF ~includes(cpaSources, src) /\ src # "all_cpas"
            THEN responses' = <<BadRequest>> /\ pc' = "idle" /\ UNCHANGED delIdx
            ELSE responses' = <<>> /\ pc' = "rescrapeDelete" /\ delIdx' = 1
    /\ totalDeleted' = 0
    /\ event' = "request"
    /\ UNCHANGED <<dbVars, source, jobId, returned, orchVars, runSingleOutcome, adminFrame>>

\* one DELETE of the clearing loop is answered: totalDeleted += del.rowCount
RescrapeDelete ==
    /\ pc = "rescrapeDelete" /\ delIdx <= Len(RescrapeSources)
    /\ scraped_cpas' = DeleteSource(scraped_cpas, RescrapeSources[delIdx])
    /\ totalDeleted' = totalDeleted + CountOfSource(scraped_cpas, RescrapeSources[delIdx])
    /\ delIdx' = delIdx + 1
    /\ event' = "deleted"
    /\ UNCHANGED <<scrape_jobs, source, pc, jobId, returned, orchVars, request, responses,
                   runSingleOutcome, adminFrame>>

\* one DELETE rejects: the catch answers 500, nothing is re-scraped
RescrapeDeleteFails ==
    /\ pc = "rescrapeDelete" /\ delIdx <= Len(RescrapeSources)
    /\ RescrapeCatch
    /\ pc' = "idle"
    /\ event' = "deleteFailed"
    /\ UNCHANGED <<dbVars, source, jobId, returned, orchVars, request, delIdx, totalDeleted,
                   runSingleOutcome, adminFrame>>

\* after the loop: res.json({ status: 'started', source, deleted: totalDeleted, ... })
RescrapeRespond ==
    /\ pc = "rescrapeDelete" /\ delIdx > Len(RescrapeSources)
    /\ responses' = Append(responses, Cleared(request.source, totalDeleted))
    /\ pc' = "rescrapeRun"
    /\ event' = "responded"
    /\ UNCHANGED <<dbVars, source, jobId, returned, orchVars, request, delIdx, totalDeleted,
                   runSingleOutcome, adminFrame>>

\* the re-scrape is started: runAll for 'all_cpas', runSingle otherwise
RescrapeRun ==
    /\ pc = "rescrapeRun"
    /\ IF request.source = "all_cpas" THEN EnterRunAll
       ELSE /\ RunSingle(request.source)
            /\ UNCHANGED orchVars
    /\ event' = "run"
    /\ UNCHANGED <<dbVars, jobId, returned, request, delIdx, totalDeleted, adminFrame>>

\* the person records stored before the request arrives
StaleRows(s) == SetToBag({CpaRow(s, NameAl, ListedHash(s), 0)})
StaleStores ==
    {EmptyBag,
     StaleRows("cpabc") (+) StaleRows("cpaontario") (+) StaleRows("cpanl")
        (+) SetToBag({CpaRow("cpabc", NameBo, generateNameHash(NameBo, Province("cpabc")), 0)})}

InitAdmin ==
    /\ source = Scrapers[1]
    /\ scrape_jobs = <<>>
    /\ scraped_cpas \in StaleStores
    /\ mocked = FALSE /\ mock = NoMock /\ site = PlainSite
    /\ RunIdle /\ OthersIdle

RunSingleSteps == CallRunSingle \/ RunSingleScrape
TriggerSteps == TriggerRequest \/ TriggerRun \/ OtherJob
RescrapeSteps == RescrapeRequest \/ RescrapeDelete \/ RescrapeDeleteFails
                    \/ RescrapeRespond \/ RescrapeRun
RunAllSteps == RunAllScrape \/ RunAllScrapeThrows \/ RunAllReturn

NextAdmin == RunSingleSteps \/ TriggerSteps \/ RescrapeSteps \/ RunAllSteps

SpecAdmin == InitAdmin /\ [][NextAdmin]_vars

----------------------------------------------------------------------------
(* Properties of runSingle and of the scrape endpoints *)

DirectCall == request.route = "runSingle"

\* C12: runSingle with a name that is not a registered scraper fails with the error
\* that lists the valid names, before any job row is created or any request is sent;
\* with a registered name it runs exactly that scraper, once
C12_RunSingleFailsFastOnUnknownName ==
    DirectCall =>
        IF request.source \notin Registered
        THEN /\ pc = "idle"
             /\ runSingleOutcome = UnknownScraperError(request.source)
             /\ runSingleOutcome.available = Scrapers
             /\ scrape_jobs = <<>> /\ returned = <<>>
        ELSE /\ Len(returned) <= 1
             /\ Len(scrape_jobs) = Len(returned)
             /\ \A i \in 1..Len(scrape_jobs) : scrape_jobs[i].source = request.source
             /\ pc = "idle" <=> Len(returned) = 1
             /\ pc # "idle" => (pc = "runSingleScrape" /\ source = request.source)

\* the step in which the scrape of a re-run source starts and ends, within a rescrape
RescrapedSourceStep ==
    /\ request.route = "rescrape"
    /\ Len(returned') = Len(returned) + 1

\* C13: for every accepted rescrape request, 'all_cpas' included, every source whose
\* scraper is re-run has had all of its existing person records deleted before that
\* scraper starts
C13_RescrapePurgesEverySourceItReruns ==
    [][RescrapedSourceStep => RowsOfSource(scraped_cpas, source) = {}]_vars

TriggerCall == request.route = "trigger"

\* work of the job a request started: a job row, a finished scrape, or a call in progress
WorkDone ==
    \/ scrape_jobs # <<>> \/ returned # <<>>
    \/ pc \in {"runAll", "runSingleScrape", "otherJob"}
    \/ runAllOutcome # "none" \/ runSingleOutcome # NoOutcome

\* C14: the trigger endpoint, given a valid source, sends its 'started' acknowledgement
\* before the scrape performs any work and sends exactly one response whatever the
\* outcome of the scrape; given an invalid source it responds 400 and starts no job
C14_TriggerAcknowledgesOnce ==
    TriggerCall =>
        /\ Len(responses) = 1
        /\ IF includes(validSources, request.source)
           THEN responses = <<Started(request.source)>>
           ELSE responses = <<BadRequest>> /\ ~WorkDone /\ pc = "idle"

C14_Witness ==
    /\ TriggerCall /\ pc = "idle"
    /\ runSingleOutcome = ScrapeError(ErrDb)
    /\ scrape_jobs # <<>> /\ scrape_jobs[1].status = "running"
    /\ responses = <<Started(request.source)>>

----------------------------------------------------------------------------
(* Numbers of the matching engine.  A number is the exact fraction num/den in lowest
   terms with den > 0; 0/0 is NaN.  Sums and products of the scores are taken exactly,
   not in binary floating point. *)

RECURSIVE Gcd(_, _)
Gcd(a, b) == IF b = 0 THEN a ELSE Gcd(b, a % b)

Abs(n) == IF n < 0 THEN -n ELSE n

NaN == [num |-> 0, den |-> 0]
IsNaN(x) == x.den = 0

\* the number n/d, for d # 0
Frac(n, d) ==
    LET g == Gcd(Abs(n), Abs(d))
        sgn == IF d < 0 THEN -1 ELSE 1
    IN  [num |-> sgn * (n \div g), den |-> sgn * (d \div g)]

\* n / d of JavaScript for finite n and d with no infinite result: 0 / 0 is NaN
Div(n, d) == IF d = 0 THEN NaN ELSE Frac(n, d)

Whole(n) == [num |-> n, den |-> 1]
Tenths(n) == Frac(n, 10)

Plus(x, y) ==
    IF IsNaN(x) \/ IsNaN(y) THEN NaN
    ELSE Frac(x.num * y.den + y.num * x.den, x.den * y.den)
Times(x, y) ==
    IF IsNaN(x) \/ IsNaN(y) THEN NaN ELSE Frac(x.num * y.num, x.den * y.den)
Minus(x, y) == Plus(x, Times(Whole(-1), y))

\* x < y and x <= y of JavaScript: false when an operand is NaN
Less(x, y) == ~IsNaN(x) /\ ~IsNaN(y) /\ x.num * y.den < y.num * x.den
LessEq(x, y) == ~IsNaN(x) /\ ~IsNaN(y) /\ x.num * y.den <= y.num * x.den

\* Math.min and Math.max of two numbers: NaN when an operand is NaN
MathMin(x, y) == IF IsNaN(x) \/ IsNaN(y) THEN NaN ELSE IF LessEq(x, y) THEN x ELSE y
MathMax(x, y) == IF IsNaN(x) \/ IsNaN(y) THEN NaN ELSE IF LessEq(x, y) THEN y ELSE x

\* Math.round: the nearest integer, a half rounding up; NaN stays NaN
MathRound(x) ==
    IF IsNaN(x) THEN NaN ELSE Whole((2 * x.num + x.den) \div (2 * x.den))

----------------------------------------------------------------------------
(* Values of JavaScript as the matching engine meets them: a value carries its type *)

Undefined == [t |-> "undefined"]
Num(n)  == [t |-> "number", n |-> n]
Str(s)  == [t |-> "string", s |-> s]
Bool(b) == [t |-> "boolean", b |-> b]
Arr(a)  == [t |-> "array", a |-> a]

\* ToBoolean: undefined, 0, '' and false are falsy
Truthy(v) ==
    CASE v.t = "undefined" -> FALSE
      [] v.t = "number"    -> v.n # 0
      [] v.t = "string"    -> v.s # <<>>
      [] v.t = "boolean"   -> v.b
      [] OTHER             -> TRUE

IsString(v) == v.t = "string"

\* haystack.includes(needle), both being strings
StrIncludes(haystack, needle) ==
    \E i \in 0..(Len(haystack) - Len(needle)) :
        SubSeq(haystack, i + 1, i + Len(needle)) = needle

WordUrgent == <<"u","r","g","e","n","t">>
WordImmediate == <<"i","m","m","e","d","i","a","t","e">>
WordFlexible == <<"f","l","e","x","i","b","l","e">>
WordPlanning == <<"p","l","a","n","n","i","n","g">>

\* x / y for numbers x and y; the engine divides by zero only in 0 / 0
Quot(x, y) ==
    IF IsNaN(x) \/ IsNaN(y) \/ y.num = 0 THEN NaN
    ELSE Frac(x.num * y.den, x.den * y.num)

IntMax(a, b) == IF a >= b THEN a ELSE b
IntMin(a, b) == IF a <= b THEN a ELSE b

\* CPAMatchingEngine.calculateBudgetAlignment; each argument is a number or undefined
calculateBudgetAlignment(clientMinBudget, clientMaxBudget, cpaMinRate, cpaMaxRate) ==
    IF ~Truthy(clientMinBudget) \/ ~Truthy(clientMaxBudget)
          \/ ~Truthy(cpaMinRate) \/ ~Truthy(cpaMaxRate)
    THEN Frac(1, 2)
    ELSE LET overlapStart == IntMax(clientMinBudget.n, cpaMinRate.n)
             overlapEnd   == IntMin(clientMaxBudget.n, cpaMaxRate.n)
             overlapSize  == overlapEnd - overlapStart
             clientRange  == clientMaxBudget.n - clientMinBudget.n
             cpaRange     == cpaMaxRate.n - cpaMinRate.n
             avgRange     == Div(clientRange + cpaRange, 2)
             distance     == IntMin(Abs(clientMaxBudget.n - cpaMinRate.n),
                                    Abs(cpaMaxRate.n - clientMinBudget.n))
         IN  IF overlapStart <= overlapEnd
             THEN MathMin(Whole(1), Quot(Whole(overlapSize), avgRange))
             ELSE MathMax(Whole(0),
                          Minus(Whole(1), Div(distance, clientMaxBudget.n)))

\* const experience = cpaExperience || 5
experienceOrDefault(cpaExperience) == IF Truthy(cpaExperience) THEN cpaExperience.n ELSE 5

\* CPAMatchingEngine.calculateUrgencyMatch; clientUrgency is a string or undefined,
\* cpaExperience a number or undefined
calculateUrgencyMatch(clientUrgency, cpaExperience) ==
    IF ~Truthy(clientUrgency) THEN Tenths(8)
    ELSE LET urgency == toLowerCase(clientUrgency.s)
             experience == experienceOrDefault(cpaExperience)
         IN  IF StrIncludes(urgency, WordImmediate) \/ StrIncludes(urgency, WordUrgent)
             THEN (IF experience >= 10 THEN Whole(1)
                   ELSE IF experience >= 5 THEN Tenths(8) ELSE Tenths(6))
             ELSE IF StrIncludes(urgency, WordFlexible) \/ StrIncludes(urgency, WordPlanning)
             THEN Tenths(9)
             ELSE Tenths(8)

----------------------------------------------------------------------------
(* The synchronous helpers, each called once with arguments drawn from small sets *)

RateValues == {k * RateStep : k \in 0..MaxRateSteps}
RateArgs == {Undefined} \cup {Num(n) : n \in RateValues}
BudgetCalls == [fn : {"calculateBudgetAlignment"},
                args : RateArgs \X RateArgs \X RateArgs \X RateArgs]

UrgencyArgs == {Undefined} \cup {Str(s) : s \in {<<"u","r","g","e","n","t">>,
        <<"U","R","G","E","N","T">>,
        <<"I","m","m","e","d","i","a","t","e">>,
        <<"a","s","a","p">>,
        <<"f","l","e","x","i","b","l","e">>,
        <<"P","l","a","n","n","i","n","g">>,
        <<"n","o","t"," ","u","r","g","e","n","t">>,
        <<>>}}
ExperienceArgs == {Undefined} \cup {Num(n) : n \in 0..MaxYears}
UrgencyCalls == [fn : {"calculateUrgencyMatch"}, args : UrgencyArgs \X ExperienceArgs]

NameChars == {"A", "a", "b", ".", " "}
Names == UNION {[1..n -> NameChars] : n \in 0..MaxNameLen}
ProvinceArgs == {<<"O","N">>, <<"o","n">>, <<"B","C">>}
HashCalls == [fn : {"generateNameHash"}, args : Names \X ProvinceArgs]

----------------------------------------------------------------------------
(* CPAAlbertaScraper._parseName *)

\* the alternatives of the designation group, in the order the regular expression tries them
Designations ==
    << <<"C","P","A">>, <<"C","M","A">>, <<"C","A">>, <<"C","G","A">>,
       <<"F","C","P","A">>, <<"F","C","M","A">>, <<"F","C","A">>, <<"F","C","G","A">>,
       <<"M","B","A">>, <<"P","h","D">>, <<"L","P","A">> >>

\* \w of the regular expression
IsWordChar(c) == IsAZ(LowerChar(c)) \/ c \in {"0","1","2","3","4","5","6","7","8","9","_"}

\* \s of the regular expression, over the characters the directory sends
IsSpace(c) == c = " "

\* the position after the run of white space that starts at position j of s
RECURSIVE SkipSpaces(_, _)
SkipSpaces(s, j) == IF j <= Len(s) /\ IsSpace(s[j]) THEN SkipSpaces(s, j + 1) ELSE j

\* (CPA|CMA|...)\b at position j of s, letter case ignored: the position after the first
\* alternative that matches and ends at a word boundary, 0 when none does
DesignationAt(s, j) ==
    LET fits(d) == /\ j + Len(d) - 1 <= Len(s)
                   /\ toLowerCase(SubSeq(s, j, j + Len(d) - 1)) = toLowerCase(d)
                   /\ (j + Len(d) > Len(s) \/ ~IsWordChar(s[j + Len(d)]))
        hits == {k \in 1..Len(Designations) : fits(Designations[k])}
    IN  IF hits = {} THEN 0
        ELSE LET k == CHOOSE m \in hits : \A n \in hits : m <= n
             IN  j + Len(Designations[k])

\* /,?\s*(CPA|...)\b/ at position i of s: the position after the match, 0 when none
MatchAt(s, i) ==
    LET afterComma == IF i <= Len(s) /\ s[i] = "," THEN i + 1 ELSE i
    IN  DesignationAt(s, SkipSpaces(s, afterComma))

\* nameText.replace(/,?\s*(CPA|CMA|CA|CGA|FCPA|FCMA|FCA|FCGA|MBA|PhD|LPA)\b/gi, '')
RECURSIVE stripDesignations(_, _)
stripDesignations(s, i) ==
    IF i > Len(s) THEN <<>>
    ELSE IF MatchAt(s, i) > 0 THEN stripDesignations(s, MatchAt(s, i))
    ELSE <<s[i]>> \o stripDesignations(s, i + 1)

\* String.prototype.trim
RECURSIVE trim(_)
trim(s) ==
    IF s # <<>> /\ IsSpace(Head(s)) THEN trim(Tail(s))
    ELSE IF s # <<>> /\ IsSpace(s[Len(s)]) THEN trim(SubSeq(s, 1, Len(s) - 1))
    ELSE s

\* s.split(sep) for a one-character separator
RECURSIVE split(_, _)
split(s, sep) ==
    IF \A i \in 1..Len(s) : s[i] # sep THEN <<s>>
    ELSE LET i == CHOOSE k \in 1..Len(s) : s[k] = sep /\ \A m \in 1..(k - 1) : s[m] # sep
         IN  <<SubSeq(s, 1, i - 1)>> \o split(SubSeq(s, i + 1, Len(s)), sep)

\* s.split(/\s+/): runs of white space separate the parts
RECURSIVE splitSpaces(_)
splitSpaces(s) ==
    IF \A i \in 1..Len(s) : ~IsSpace(s[i]) THEN <<s>>
    ELSE LET i == CHOOSE k \in 1..Len(s) : IsSpace(s[k]) /\ \A m \in 1..(k - 1) : ~IsSpace(s[m])
         IN  <<SubSeq(s, 1, i - 1)>> \o splitSpaces(SubSeq(s, SkipSpaces(s, i), Len(s)))

\* parts.join(' ')
RECURSIVE join(_)
join(parts) ==
    IF parts = <<>> THEN <<>>
    ELSE IF Len(parts) = 1 THEN parts[1]
    ELSE parts[1] \o <<" ">> \o join(Tail(parts))

\* CPAAlbertaScraper._parseName(nameText, city); city is handed through and is left out
parseName(nameText) ==
    LET cleanName == trim(stripDesignations(nameText, 1))
        byComma == [k \in 1..Len(split(cleanName, ",")) |-> trim(split(cleanName, ",")[k])]
        bySpace == splitSpaces(cleanName)
        hasComma == \E i \in 1..Len(cleanName) : cleanName[i] = ","
    IN  [firstName |-> IF hasComma THEN (IF Len(byComma) >= 2 THEN byComma[2] ELSE <<>>)
                       ELSE bySpace[1],
         lastName  |-> IF hasComma THEN byComma[1] ELSE join(Tail(bySpace)),
         fullName  |-> nameText,
         nameHash  |-> generateNameHash(nameText, Province("cpaalberta"))]

\* How the directory may write one person's name: an optional honorific, the first name,
\* an optional middle initial, the surname and optional designations, surname last or first
Honorifics == {<<>>, <<"M","r",".">>}
FirstNames == {<<"J","o","h","n">>, <<"j","o","h","n">>}
MiddleInitials == {<<>>, <<"D">>, <<"D",".">>}
Surnames == {<<"S","M","I","T","H">>, <<"s","m","i","t","h">>}
Credentials == {<<>>, <<",", " ", "C","P","A">>, <<" ", "C","P","A", ",", " ", "C","M","A">>}
Writings == [honorific : Honorifics, first : FirstNames, initial : MiddleInitials,
             last : Surnames, credential : Credentials, lastFirst : BOOLEAN]

\* a part followed by a blank, nothing when the part is absent
Spaced(part) == IF part = <<>> THEN <<>> ELSE part \o <<" ">>

\* the name text of a writing, "Mr. John D. SMITH, CPA" or "SMITH, Mr. John D. CPA"
Written(w) ==
    IF w.lastFirst
    THEN w.last \o <<",", " ">> \o Spaced(w.honorific)
         \o trim(Spaced(w.first) \o w.initial) \o w.credential
    ELSE Spaced(w.honorific) \o Spaced(w.first) \o Spaced(w.initial) \o w.last \o w.credential

WrittenNames == {Written(w) : w \in Writings}
ParseNameCalls == [fn : {"_parseName"}, args : {<<n>> : n \in WrittenNames}]

pureFrame == <<dbVars, runVars, sweepVars, ontarioVars, quebecVars, orchVars,
               adminVars, matchVars, batchVars>>

ApplyBudget ==
    /\ call.fn = "calculateBudgetAlignment" /\ result = <<>>
    /\ result' = <<calculateBudgetAlignment(call.args[1], call.args[2],
                                            call.args[3], call.args[4])>>
    /\ UNCHANGED <<call, pureFrame>>

ApplyUrgency ==
    /\ call.fn = "calculateUrgencyMatch" /\ result = <<>>
    /\ result' = <<calculateUrgencyMatch(call.args[1], call.args[2])>>
    /\ UNCHANGED <<call, pureFrame>>

ApplyHash ==
    /\ call.fn = "generateNameHash" /\ result = <<>>
    /\ result' = <<generateNameHash(call.args[1], call.args[2])>>
    /\ UNCHANGED <<call, pureFrame>>

ApplyParseName ==
    /\ call.fn = "_parseName" /\ result = <<>>
    /\ result' = <<parseName(call.args[1])>>
    /\ UNCHANGED <<call, pureFrame>>

InitPure ==
    /\ source = Scrapers[1]
    /\ scrape_jobs = <<>>
    /\ scraped_cpas = EmptyBag
    /\ mocked = FALSE /\ mock = NoMock /\ site = PlainSite
    /\ RunIdle /\ ScrapersIdle /\ AdminIdle /\ MatchIdle /\ BatchIdle
    /\ \/ call \in BudgetCalls
       \/ call \in UrgencyCalls
       \/ call \in HashCalls
       \/ call \in ParseNameCalls
    /\ result = <<>>

NextPure == ApplyBudget \/ ApplyUrgency \/ ApplyHash \/ ApplyParseName

SpecPure == InitPure /\ [][NextPure]_vars

----------------------------------------------------------------------------
(* Properties of the helpers *)

BudgetCalled == call.fn = "calculateBudgetAlignment" /\ result # <<>>

\* a bound is present when a number was given, 0 included
Present(v) == v.t = "number"

\* C16: whenever all four bounds are present (0 counts as present) and the two ranges
\* overlap, the budget sub-score is the overlap length divided by the average of the two
\* widths, capped at 1.0; the neutral 0.5 is returned only when a bound is missing
C16_BudgetOverlapRatio ==
    BudgetCalled =>
        LET cMin == call.args[1]  cMax == call.args[2]
            rMin == call.args[3]  rMax == call.args[4]
        IN  (Present(cMin) /\ Present(cMax) /\ Present(rMin) /\ Present(rMax)) =>
                LET lo == IntMax(cMin.n, rMin.n)
                    hi == IntMin(cMax.n, rMax.n)
                    widths == (cMax.n - cMin.n) + (rMax.n - rMin.n)
                IN  (lo <= hi /\ widths > 0) =>
                        result[1] = MathMin(Whole(1), Frac(2 * (hi - lo), widths))

UrgencyCalled == call.fn = "calculateUrgencyMatch" /\ result # <<>>

\* the urgency words as the claim names them, whatever the letter case
SaysUrgent(v) ==
    /\ v.t = "string"
    /\ \/ StrIncludes(toLowerCase(v.s), WordUrgent)
       \/ StrIncludes(toLowerCase(v.s), WordImmediate)
SaysFlexible(v) ==
    /\ v.t = "string"
    /\ \/ StrIncludes(toLowerCase(v.s), WordFlexible)
       \/ StrIncludes(toLowerCase(v.s), WordPlanning)

\* C17: for an urgent/immediate client the urgency sub-score is 1.0 when the candidate
\* has at least 10 years of experience, 0.8 when at least 5, and 0.6 otherwise, 0 years
\* included; for flexible/planning urgency it is 0.9 whatever the experience; for any
\* other or unspecified urgency it is 0.8
C17_UrgencyByExperience ==
    UrgencyCalled =>
        LET urgency == call.args[1]
            years == call.args[2]
        IN  IF SaysUrgent(urgency)
            THEN Present(years) =>
                    result[1] = IF years.n >= 10 THEN Whole(1)
                                ELSE IF years.n >= 5 THEN Tenths(8) ELSE Tenths(6)
            ELSE IF SaysFlexible(urgency) THEN result[1] = Tenths(9)
            ELSE result[1] = Tenths(8)

HashCalled == call.fn = "generateNameHash" /\ result # <<>>

IsLetter(c) == (\E i \in 1..26 : LowerAZ[i] = c) \/ (\E i \in 1..26 : UpperAZ[i] = c)
SameLetter(c, d) == \E i \in 1..26 : c \in {LowerAZ[i], UpperAZ[i]} /\ d \in {LowerAZ[i], UpperAZ[i]}

\* the two names spell the same letters once letter case is ignored and punctuation
\* and whitespace are skipped
RECURSIVE SameUpToCaseAndPunctuation(_, _)
SameUpToCaseAndPunctuation(n1, n2) ==
    IF n1 # <<>> /\ ~IsLetter(Head(n1)) THEN SameUpToCaseAndPunctuation(Tail(n1), n2)
    ELSE IF n2 # <<>> /\ ~IsLetter(Head(n2)) THEN SameUpToCaseAndPunctuation(n1, Tail(n2))
    ELSE IF n1 = <<>> \/ n2 = <<>> THEN n1 = n2
    ELSE SameLetter(Head(n1), Head(n2)) /\ SameUpToCaseAndPunctuation(Tail(n1), Tail(n2))

\* the two province codes name one province
SameProvince(p1, p2) ==
    Len(p1) = Len(p2) /\ \A i \in 1..Len(p1) : p1[i] = p2[i] \/ SameLetter(p1[i], p2[i])

\* C20: generateNameHash is a function of (name, province); two names that differ only
\* in letter case or in punctuation/whitespace get the same key within one province,
\* and one name gets different keys in two different provinces
C20_HashFoldsCaseAndPunctuation ==
    HashCalled =>
        LET name == call.args[1]
            province == call.args[2]
        IN  /\ \A other \in Names :
                  SameUpToCaseAndPunctuation(name, other) =>
                      generateNameHash(other, province) = result[1]
            /\ \A p \in ProvinceArgs :
                  /\ SameProvince(p, province) => generateNameHash(name, p) = result[1]
                  /\ ~SameProvince(p, province) => generateNameHash(name, p) # result[1]

C20_Witness ==
    /\ HashCalled
    /\ call.args[1] = <<"A", ".", "b">>
    /\ call.args[2] = <<"O", "N">>
    /\ result[1] = generateNameHash(<<"a", " ", "B">>, <<"o", "n">>)
    /\ result[1] # generateNameHash(<<"A", ".", "b">>, <<"B", "C">>)

----------------------------------------------------------------------------
(* The other sub-scores of CPAMatchingEngine.  A sub-score throws when it calls
   toLowerCase on a value that is no string; XThrows tells when, and the value of X
   is meant only where X does not throw. *)

WordFormal == <<"f","o","r","m","a","l">>
WordProfessional == <<"p","r","o","f","e","s","s","i","o","n","a","l">>
WordCasual == <<"c","a","s","u","a","l">>
WordFriendly == <<"f","r","i","e","n","d","l","y">>
WordDirect == <<"d","i","r","e","c","t">>
WordEfficient == <<"e","f","f","i","c","i","e","n","t">>
WordCollaborative == <<"c","o","l","l","a","b","o","r","a","t","i","v","e">>
WordConsultative == <<"c","o","n","s","u","l","t","a","t","i","v","e">>
WordStartup == <<"s","t","a","r","t","u","p">>
WordSmall == <<"s","m","a","l","l">>
WordMedium == <<"m","e","d","i","u","m">>
WordLarge == <<"l","a","r","g","e">>
WordEnterprise == <<"e","n","t","e","r","p","r","i","s","e">>
WordSolo == <<"s","o","l","o">>
WordBig4 == <<"b","i","g","4">>
WordConstructor == <<"c","o","n","s","t","r","u","c","t","o","r">>

\* either string includes the other, case folded
EitherIncludes(a, b) ==
    \/ StrIncludes(toLowerCase(a), toLowerCase(b))
    \/ StrIncludes(toLowerCase(b), toLowerCase(a))

\* the inner loop for one required service: "match", "nomatch" or "throw"
RECURSIVE ServiceOutcome(_, _)
ServiceOutcome(service, available) ==
    IF available = <<>> THEN "nomatch"
    ELSE IF ~IsString(service) \/ ~IsString(Head(available)) THEN "throw"
    ELSE IF EitherIncludes(service.s, Head(available).s) THEN "match"
    ELSE ServiceOutcome(service, Tail(available))

\* Array.isArray(x) ? x : [x]
AsArray(v) == IF v.t = "array" THEN v.a ELSE <<v>>

SpecializationThrows(requiredServices, cpaSpecializations) ==
    /\ Truthy(requiredServices) /\ Truthy(cpaSpecializations)
    /\ \E i \in 1..Len(AsArray(requiredServices)) :
          ServiceOutcome(AsArray(requiredServices)[i], AsArray(cpaSpecializations)) = "throw"

\* CPAMatchingEngine.calculateSpecializationMatch
calculateSpecializationMatch(requiredServices, cpaSpecializations) ==
    IF ~Truthy(requiredServices) \/ ~Truthy(cpaSpecializations) THEN Whole(0)
    ELSE LET required == AsArray(requiredServices)
             available == AsArray(cpaSpecializations)
             matched == {i \in 1..Len(required) :
                            ServiceOutcome(required[i], available) = "match"}
             totalRequired == Len(required)
         IN  IF totalRequired > 0 THEN Div(Cardinality(matched), totalRequired)
             ELSE Whole(0)

LocationThrows(clientLocation, cpaProvince, cpaRemote, clientRemoteOk) ==
    /\ ~(Truthy(cpaRemote) /\ Truthy(clientRemoteOk))
    /\ Truthy(clientLocation) /\ Truthy(cpaProvince)
    /\ ~IsString(clientLocation) \/ ~IsString(cpaProvince)

\* CPAMatchingEngine.calculateLocationMatch
calculateLocationMatch(clientLocation, cpaProvince, cpaRemote, clientRemoteOk) ==
    IF Truthy(cpaRemote) /\ Truthy(clientRemoteOk) THEN Whole(1)
    ELSE IF /\ Truthy(clientLocation) /\ Truthy(cpaProvince)
            /\ StrIncludes(toLowerCase(clientLocation.s), toLowerCase(cpaProvince.s))
         THEN Tenths(9)
    ELSE IF Truthy(cpaRemote) \/ Truthy(clientRemoteOk) THEN Tenths(7)
    ELSE Tenths(3)

compatiblePairs == <<<<WordFormal, WordProfessional>>, <<WordCasual, WordFriendly>>,
                     <<WordDirect, WordEfficient>>,
                     <<WordCollaborative, WordConsultative>>>>

CommunicationThrows(clientPreference, cpaStyle) ==
    /\ Truthy(clientPreference) /\ Truthy(cpaStyle)
    /\ ~IsString(clientPreference) \/ ~IsString(cpaStyle)

\* CPAMatchingEngine.calculateCommunicationMatch
calculateCommunicationMatch(clientPreference, cpaStyle) ==
    IF ~Truthy(clientPreference) \/ ~Truthy(cpaStyle) THEN Tenths(7)
    ELSE LET preference == toLowerCase(clientPreference.s)
             style == toLowerCase(cpaStyle.s)
         IN  IF preference = style THEN Whole(1)
             ELSE IF \E i \in 1..Len(compatiblePairs) :
                        \/ /\ StrIncludes(preference, compatiblePairs[i][1])
                           /\ StrIncludes(style, compatiblePairs[i][2])
                        \/ /\ StrIncludes(preference, compatiblePairs[i][2])
                           /\ StrIncludes(style, compatiblePairs[i][1])
                  THEN Tenths(8)
             ELSE Tenths(5)

\* const sizeMap: the firm sizes that suit a business size; <<>> for a name it lacks
sizeMap(business) ==
    CASE business = WordStartup    -> <<WordSolo, WordSmall>>
      [] business = WordSmall      -> <<WordSolo, WordSmall, WordMedium>>
      [] business = WordMedium     -> <<WordSmall, WordMedium, WordLarge>>
      [] business = WordLarge      -> <<WordMedium, WordLarge, WordBig4>>
      [] business = WordEnterprise -> <<WordLarge, WordBig4>>
      [] OTHER                     -> <<>>

\* sizeMap[business] is a value inherited from Object.prototype, which has no .some
sizeMapInherited(business) == business = WordConstructor

FirmSizeThrows(businessSize, firmSize) ==
    /\ Truthy(businessSize) /\ Truthy(firmSize)
    /\ \/ ~IsString(businessSize) \/ ~IsString(firmSize)
       \/ sizeMapInherited(toLowerCase(businessSize.s))

\* CPAMatchingEngine.calculateFirmSizeMatch
calculateFirmSizeMatch(businessSize, firmSize) ==
    IF ~Truthy(businessSize) \/ ~Truthy(firmSize) THEN Tenths(7)
    ELSE LET sizes == sizeMap(toLowerCase(businessSize.s))
             firm == toLowerCase(firmSize.s)
         IN  IF \E i \in 1..Len(sizes) : StrIncludes(firm, sizes[i])
             THEN Whole(1) ELSE Tenths(4)

\* toLowerCase of calculateUrgencyMatch, called on a truthy clientUrgency
UrgencyThrows(clientUrgency, cpaExperience) ==
    Truthy(clientUrgency) /\ ~IsString(clientUrgency)

\* CPAMatchingEngine.getRecommendationLevel: every comparison with NaN is false
getRecommendationLevel(score) ==
    IF LessEq(Whole(90), score) THEN "Excellent Match"
    ELSE IF LessEq(Whole(80), score) THEN "Very Good Match"
    ELSE IF LessEq(Whole(70), score) THEN "Good Match"
    ELSE IF LessEq(Whole(60), score) THEN "Fair Match"
    ELSE "Poor Match"

----------------------------------------------------------------------------
(* CPAMatchingEngine.calculateMatchScore and findTopMatches *)

\* this.matchingWeights, in hundredths
matchingWeights == [specialization_match |-> Frac(35, 100), location_preference |-> Frac(20, 100),
                    budget_alignment |-> Frac(15, 100), communication_style |-> Frac(12, 100),
                    firm_size_preference |-> Frac(10, 100),
                    availability_urgency |-> Frac(8, 100)]

\* one of the six sub-scores throws inside the try block
ScoreThrows(client, cpa) ==
    \/ SpecializationThrows(client.required_services, cpa.specializations)
    \/ LocationThrows(client.location_preference, cpa.province, cpa.remote_services,
                      client.remote_acceptable)
    \/ CommunicationThrows(client.preferred_communication, cpa.communication_style)
    \/ FirmSizeThrows(client.business_size, cpa.firm_size)
    \/ UrgencyThrows(client.urgency_level, cpa.years_experience)

\* matchFactors after the six sub-scores
matchFactorsOf(client, cpa) ==
    [specialization_score |->
         calculateSpecializationMatch(client.required_services, cpa.specializations),
     location_score |->
         calculateLocationMatch(client.location_preference, cpa.province,
                                cpa.remote_services, client.remote_acceptable),
     budget_score |->
         calculateBudgetAlignment(client.budget_range_min, client.budget_range_max,
                                  cpa.hourly_rate_min, cpa.hourly_rate_max),
     communication_score |->
         calculateCommunicationMatch(client.preferred_communication, cpa.communication_style),
     firm_size_score |-> calculateFirmSizeMatch(client.business_size, cpa.firm_size),
     urgency_score |-> calculateUrgencyMatch(client.urgency_level, cpa.years_experience)]

\* totalScore after the six weighted additions
totalScoreOf(f) ==
    Plus(Plus(Plus(Plus(Plus(
        Times(f.specialization_score, matchingWeights.specialization_match),
        Times(f.location_score, matchingWeights.location_preference)),
        Times(f.budget_score, matchingWeights.budget_alignment)),
        Times(f.communication_score, matchingWeights.communication_style)),
        Times(f.firm_size_score, matchingWeights.firm_size_preference)),
        Times(f.urgency_score, matchingWeights.availability_urgency))

\* the value the catch of calculateMatchScore returns
ErrorResult == [match_score |-> Whole(0), match_factors |-> <<>>,
                recommendation_level |-> "Error"]

\* CPAMatchingEngine.calculateMatchScore
calculateMatchScore(client, cpa) ==
    IF ScoreThrows(client, cpa) THEN ErrorResult
    ELSE LET matchFactors == matchFactorsOf(client, cpa)
             finalScore == MathRound(Times(totalScoreOf(matchFactors), Whole(100)))
         IN  [match_score |-> finalScore, match_factors |-> <<matchFactors>>,
              recommendation_level |-> getRecommendationLevel(finalScore)]


\* a candidate that has the required fields only
BareCpa(id) ==
    [cpa_id |-> id, verification_status |-> "verified", is_active |-> Bool(TRUE),
     specializations |-> Undefined, province |-> Undefined, remote_services |-> Undefined,
     hourly_rate_min |-> Undefined, hourly_rate_max |-> Undefined,
     communication_style |-> Undefined, firm_size |-> Undefined,
     years_experience |-> Undefined]

FullCpa(id) ==
    [BareCpa(id) EXCEPT !.specializations = Arr(<<Str(<<"T","a","x">>), Str(<<"a","u","d","i","t">>)>>),
                         !.province = Str(<<"O","N">>), !.remote_services = Bool(TRUE),
                         !.hourly_rate_min = Num(RateStep), !.hourly_rate_max = Num(2 * RateStep),
                         !.communication_style = Str(<<"P","r","o","f","e","s","s","i","o","n","a","l">>), !.firm_size = Str(<<"S","m","a","l","l">>),
                         !.years_experience = Num(MaxYears)]

\* the candidates findTopMatches is given: complete, bare, with a zero-width rate range,
\* with a communication style that is no string, not verified, not active
Candidates ==
    {FullCpa(1),
     BareCpa(2),
     [BareCpa(3) EXCEPT !.hourly_rate_min = Num(RateStep), !.hourly_rate_max = Num(RateStep)],
     [FullCpa(4) EXCEPT !.communication_style = Num(1)],
     [FullCpa(5) EXCEPT !.verification_status = "pending"],
     [FullCpa(6) EXCEPT !.is_active = Bool(FALSE)]}

BareClient ==
    [industry |-> Undefined, required_services |-> Undefined,
     location_preference |-> Undefined, remote_acceptable |-> Undefined,
     budget_range_min |-> Undefined, budget_range_max |-> Undefined,
     preferred_communication |-> Undefined, business_size |-> Undefined,
     urgency_level |-> Undefined]

FullClient ==
    [BareClient EXCEPT !.required_services = Arr(<<Str(<<"t","a","x"," ","p","l","a","n","n","i","n","g">>)>>),
                       !.location_preference = Str(<<"T","o","r","o","n","t","o",","," ","O","N">>),
                       !.remote_acceptable = Bool(FALSE),
                       !.budget_range_min = Num(RateStep),
                       !.budget_range_max = Num(RateStep),
                       !.preferred_communication = Str(<<"f","o","r","m","a","l">>),
                       !.business_size = Str(<<"s","t","a","r","t","u","p">>),
                       !.urgency_level = Str(<<"U","r","g","e","n","t">>)]

Clients == {BareClient, FullClient,
            [FullClient EXCEPT !.budget_range_max = Num(3 * RateStep)]}

CpaLists == UNION {[1..n -> Candidates] : n \in 0..MaxCpas}
Limits == -1..MaxLimit

matchFrame == <<dbVars, source, jobId, counters, error, event, returned, sweepVars,
                ontarioVars, quebecVars, orchVars, adminVars, pureVars, batchVars>>

\* findTopMatches(clientProfile, availableCPAs, limit) is called: const matches = []
CallFindTopMatches ==
    /\ pc = "idle" /\ topMatches = NotEnded /\ cpaIdx = 0
    /\ pc' = "scoring"
    /\ cpaIdx' = 1
    /\ matches' = <<>>
    /\ UNCHANGED <<clientProfile, availableCPAs, limit, topMatches, matchFrame>>

\* cpa.verification_status === 'verified' && cpa.is_active
Eligible(cpa) == cpa.verification_status = "verified" /\ Truthy(cpa.is_active)

\* { cpa_id, cpa_profile, ...matchResult }; index is the candidate's position in the input
MatchEntry(cpa, index, matchResult) ==
    [cpa_id |-> cpa.cpa_id, cpa_profile |-> cpa, index |-> index,
     match_score |-> matchResult.match_score,
     match_factors |-> matchResult.match_factors,
     recommendation_level |-> matchResult.recommendation_level]

\* a candidate that is not verified or not active is passed over
SkipCandidate ==
    /\ pc = "scoring" /\ cpaIdx <= Len(availableCPAs)
    /\ ~Eligible(availableCPAs[cpaIdx])
    /\ cpaIdx' = cpaIdx + 1
    /\ UNCHANGED <<pc, clientProfile, availableCPAs, limit, matches, topMatches, matchFrame>>

\* variant: a calculateMatchScore without its catch, the exception leaving findTopMatches
ScoreRethrow(cpa) ==
    /\ topMatches' = [kind |-> "threw", list |-> <<>>]
    /\ pc' = "idle"
    /\ UNCHANGED <<matches, cpaIdx>>

\* catch (error) of calculateMatchScore: the candidate is pushed with the error result
ScoreCatch(cpa) ==
    /\ matches' = Append(matches, MatchEntry(cpa, cpaIdx, ErrorResult))
    /\ cpaIdx' = cpaIdx + 1
    /\ UNCHANGED <<pc, topMatches>>

\* await this.calculateMatchScore(clientProfile, cpa), then matches.push(...)
ScoreCandidate ==
    /\ pc = "scoring" /\ cpaIdx <= Len(availableCPAs)
    /\ Eligible(availableCPAs[cpaIdx])
    /\ LET cpa == availableCPAs[cpaIdx]
       IN  IF ScoreThrows(clientProfile, cpa)
           THEN ScoreCatch(cpa)
           ELSE /\ matches' = Append(matches, MatchEntry(cpa, cpaIdx,
                                         calculateMatchScore(clientProfile, cpa)))
                /\ cpaIdx' = cpaIdx + 1
                /\ UNCHANGED <<pc, topMatches>>
    /\ UNCHANGED <<clientProfile, availableCPAs, limit, matchFrame>>

\* x goes before the first element whose score is smaller (b.match_score - a.match_score > 0)
RECURSIVE InsertByScore(_, _)
InsertByScore(sorted, x) ==
    IF sorted = <<>> THEN <<x>>
    ELSE IF Less(Head(sorted).match_score, x.match_score) THEN <<x>> \o sorted
    ELSE <<Head(sorted)>> \o InsertByScore(Tail(sorted), x)

\* Array.prototype.sort with a consistent comparator: stable, descending by match_score
RECURSIVE SortByScore(_)
SortByScore(list) ==
    IF list = <<>> THEN <<>>
    ELSE InsertByScore(SortByScore(SubSeq(list, 1, Len(list) - 1)), list[Len(list)])

Reorderings(list) ==
    {[i \in 1..Len(list) |-> list[p[i]]] :
        p \in {f \in [1..Len(list) -> 1..Len(list)] :
                  \A i, j \in 1..Len(list) : f[i] = f[j] => i = j}}

\* A NaN score makes the comparator return NaN for some pairs; it is then no consistent
\* comparator and ECMAScript leaves the order to the implementation
SortOutcomes(list) ==
    IF \E i \in 1..Len(list) : IsNaN(list[i].match_score)
    THEN Reorderings(list)
    ELSE {SortByScore(list)}

\* list.slice(0, end) for an integer end: a negative end counts from the end of the list
slice(list, end) ==
    SubSeq(list, 1, IF end < 0 THEN IntMax(Len(list) + end, 0) ELSE IntMin(end, Len(list)))

\* matches.sort(...).slice(0, limit) is returned
SortAndReturn ==
    /\ pc = "scoring" /\ cpaIdx > Len(availableCPAs)
    /\ \E sorted \in SortOutcomes(matches) :
          topMatches' = [kind |-> "returned", list |-> slice(sorted, limit)]
    /\ pc' = "idle"
    /\ UNCHANGED <<clientProfile, availableCPAs, limit, matches, cpaIdx, matchFrame>>

InitMatch ==
    /\ source = Scrapers[1]
    /\ scrape_jobs = <<>>
    /\ scraped_cpas = EmptyBag
    /\ mocked = FALSE /\ mock = NoMock /\ site = PlainSite
    /\ RunIdle /\ ScrapersIdle /\ AdminIdle /\ PureIdle /\ BatchIdle
    /\ clientProfile \in Clients
    /\ availableCPAs \in CpaLists
    /\ limit \in Limits
    /\ matches = <<>> /\ cpaIdx = 0 /\ topMatches = NotEnded

NextMatch == CallFindTopMatches \/ SkipCandidate \/ ScoreCandidate \/ SortAndReturn

SpecMatch == InitMatch /\ [][NextMatch]_vars

----------------------------------------------------------------------------
(* Properties of the matching engine *)

\* an integer between 0 and 100
IsPercentage(x) == ~IsNaN(x) /\ x.den = 1 /\ 0 <= x.num /\ x.num <= 100

\* C15: calculateMatchScore returns, for every client profile and every candidate
\* profile (a candidate missing all optional fields, zero-width or equal budget and rate
\* ranges included), an integer match_score between 0 and 100, and it never throws
C15_MatchScoreIsPercentage ==
    /\ topMatches.kind # "threw"
    /\ \A i \in 1..Len(matches) : IsPercentage(matches[i].match_score)

FindReturned == topMatches.kind = "returned"

\* x >= y of JavaScript
AtLeast(x, y) == LessEq(y, x)

\* the entries of matches that findTopMatches did not return
LeftOut == {matches[i] : i \in 1..Len(matches)}
              \ {topMatches.list[i] : i \in 1..Len(topMatches.list)}

\* the returned list is in non-increasing order of match_score, candidates with equal
\* scores in their input order
RankedByScore(list) ==
    \A i, j \in 1..Len(list) :
        i < j => /\ AtLeast(list[i].match_score, list[j].match_score)
                 /\ list[i].match_score = list[j].match_score
                        => list[i].index < list[j].index

\* C18: findTopMatches returns only candidates that are verified and active, at most
\* limit of them, in non-increasing order of match_score with equal-score candidates
\* in their input order, and no eligible candidate left out has a higher score than
\* one that was returned
C18_TopMatchesRanked ==
    FindReturned =>
        LET list == topMatches.list
        IN  /\ \A i \in 1..Len(list) : Eligible(list[i].cpa_profile)
            /\ Len(list) <= limit
            /\ RankedByScore(list)
            /\ \A out \in LeftOut : \A i \in 1..Len(list) :
                  AtLeast(list[i].match_score, out.match_score)

\* the positions of availableCPAs that hold a verified and active candidate
EligiblePositions == {i \in 1..Len(availableCPAs) : Eligible(availableCPAs[i])}

\* C19: a candidate for whom a sub-score throws gets match_score 0 and
\* recommendation_level 'Error', and findTopMatches still scores and ranks every other
\* eligible candidate: it does not throw, every eligible candidate has its entry, and
\* the returned list is the ranking of all entries cut at its length
C19_ScoringErrorIsolated ==
    /\ topMatches.kind # "threw"
    /\ \A i \in 1..Len(matches) :
          /\ Eligible(matches[i].cpa_profile)
          /\ matches[i].cpa_profile = availableCPAs[matches[i].index]
          /\ IF ScoreThrows(clientProfile, matches[i].cpa_profile)
             THEN /\ matches[i].match_score = Whole(0)
                  /\ matches[i].recommendation_level = "Error"
             ELSE /\ matches[i].recommendation_level # "Error"
                  /\ matches[i].match_factors # <<>>
    /\ FindReturned =>
          /\ {matches[i].index : i \in 1..Len(matches)} = EligiblePositions
          /\ Len(matches) = Cardinality(EligiblePositions)
          /\ \E ranking \in Reorderings(matches) :
                 /\ topMatches.list = SubSeq(ranking, 1, Len(topMatches.list))
                 /\ (\A i \in 1..Len(matches) : ~IsNaN(matches[i].match_score))
                        => RankedByScore(ranking)
          /\ limit >= Len(matches) => Len(topMatches.list) = Len(matches)

C19_Witness ==
    /\ FindReturned
    /\ Len(topMatches.list) = 2 /\ Len(matches) = 3
    /\ topMatches.list[2].recommendation_level = "Error"
    /\ topMatches.list[2].index = 1
    /\ topMatches.list[1].index = 3
    /\ topMatches.list[1].recommendation_level = "Excellent Match"

----------------------------------------------------------------------------
(* The identity key of a person's name *)

ParseNameCalled == call.fn = "_parseName" /\ result # <<>>

\* two writings name one person: the same first name and surname in the same order,
\* letter case aside; the honorific, the middle initial and the designations are free
SamePerson(w1, w2) ==
    /\ toLowerCase(w1.first) = toLowerCase(w2.first)
    /\ toLowerCase(w1.last) = toLowerCase(w2.last)
    /\ w1.lastFirst = w2.lastFirst

\* C21: two records of one person whose name strings differ only by an honorific, a middle
\* initial or credential text get the same identity key within a province, both from
\* generateNameHash and from the name text CPAAlbertaScraper._parseName hashes
C21_SamePersonSameKey ==
    ParseNameCalled =>
        \A w1, w2 \in Writings :
            (Written(w1) = call.args[1] /\ SamePerson(w1, w2)) =>
                /\ parseName(Written(w2)).nameHash = result[1].nameHash
                /\ generateNameHash(Written(w2), <<"O","N">>)
                       = generateNameHash(call.args[1], <<"O","N">>)

----------------------------------------------------------------------------
(* StatCanODBusLoader: the CSV of the business register *)

\* StatCanODBusLoader._parseCSVLine(line) from position i on, with let current and
\* let inQuotes: a double quote toggles inQuotes and is dropped, a comma outside quotes
\* ends a field, every field is trimmed
RECURSIVE parseCSVFrom(_, _, _, _)
parseCSVFrom(line, i, current, inQuotes) ==
    IF i > Len(line) THEN <<trim(current)>>
    ELSE IF line[i] = "\"" THEN parseCSVFrom(line, i + 1, current, ~inQuotes)
    ELSE IF line[i] = "," /\ ~inQuotes
         THEN <<trim(current)>> \o parseCSVFrom(line, i + 1, <<>>, FALSE)
    ELSE parseCSVFrom(line, i + 1, Append(current, line[i]), inQuotes)

parseCSVLine(line) == parseCSVFrom(line, 1, <<>>, FALSE)

\* h.replace(/"/g, '')
dropQuotes(h) == SelectSeq(h, LAMBDA c : c # "\"")

\* const rawHeaders = lines[0].split(',').map(h => h.trim().replace(/"/g, '').toLowerCase())
rawHeaders(headerLine) ==
    [k \in 1..Len(split(headerLine, ",")) |->
        toLowerCase(dropQuotes(trim(split(headerLine, ",")[k])))]

\* colIdx[name] after rawHeaders.forEach((h, i) => { colIdx[h] = i; }): the last column
\* of that name, 1-based; 0 stands for undefined
colIdx(headers, name) ==
    LET at == {k \in 1..Len(headers) : headers[k] = name}
    IN  IF at = {} THEN 0 ELSE CHOOSE k \in at : \A m \in at : m <= k

\* the StatCan notation of a missing value
MissingMarker == <<".",".">>

\* const val = (idx) => { const v = (cols[idx] || '').trim(); return v === '..' ? '' : v; }
val(cols, idx) ==
    LET v == trim(IF idx \in 1..Len(cols) THEN cols[idx] ELSE <<>>)
    IN  IF v = MissingMarker THEN <<>> ELSE v

ColBusinessName == <<"b","u","s","i","n","e","s","s","_","n","a","m","e">>
ColDerivedNaics == <<"d","e","r","i","v","e","d","_","n","a","i","c","s">>
ColSourceNaics == <<"s","o","u","r","c","e","_","n","a","i","c","s","_","p","r","i","m","a","r","y">>
ColNaicsDescr == <<"n","a","i","c","s","_","d","e","s","c","r">>
ColProvTerr == <<"p","r","o","v","_","t","e","r","r">>
ColCity == <<"c","i","t","y">>
ColStatus == <<"s","t","a","t","u","s">>
ColEmployees == <<"t","o","t","a","l","_","n","o","_","e","m","p","l","o","y","e","e","s">>
StatusActive == <<"A","c","t","i","v","e">>

\* x || y for two strings
OrElse(x, y) == IF x # <<>> THEN x ELSE y

\* the fields load reads from one line of the CSV (line 1 being the header)
fieldsOf(lines, i) ==
    LET headers == rawHeaders(lines[1])
        cols == parseCSVLine(trim(lines[i]))
        at(name) == val(cols, colIdx(headers, name))
    IN  [businessName |-> at(ColBusinessName),
         naicsCode    |-> OrElse(at(ColDerivedNaics), at(ColSourceNaics)),
         naicsDescr   |-> at(ColNaicsDescr),
         province     |-> at(ColProvTerr),
         city         |-> at(ColCity),
         status       |-> OrElse(at(ColStatus), StatusActive),
         employees    |-> at(ColEmployees),
         line         |-> i]

\* static NAICS_MAP: the two-digit sector codes and their labels
NAICS_MAP ==
       <<"1","1">> :> <<"A","g","r","i","c","u","l","t","u","r","e",","," ","F","o","r","e","s","t","r","y",","," ","F","i","s","h","i","n","g"," ","a","n","d"," ","H","u","n","t","i","n","g">>
    @@ <<"2","1">> :> <<"M","i","n","i","n","g",","," ","Q","u","a","r","r","y","i","n","g",","," ","a","n","d"," ","O","i","l"," ","a","n","d"," ","G","a","s"," ","E","x","t","r","a","c","t","i","o","n">>
    @@ <<"2","2">> :> <<"U","t","i","l","i","t","i","e","s">>
    @@ <<"2","3">> :> <<"C","o","n","s","t","r","u","c","t","i","o","n">>
    @@ <<"3","1">> :> <<"M","a","n","u","f","a","c","t","u","r","i","n","g">>
    @@ <<"3","2">> :> <<"M","a","n","u","f","a","c","t","u","r","i","n","g">>
    @@ <<"3","3">> :> <<"M","a","n","u","f","a","c","t","u","r","i","n","g">>
    @@ <<"4","1">> :> <<"W","h","o","l","e","s","a","l","e"," ","T","r","a","d","e">>
    @@ <<"4","4">> :> <<"R","e","t","a","i","l"," ","T","r","a","d","e">>
    @@ <<"4","5">> :> <<"R","e","t","a","i","l"," ","T","r","a","d","e">>
    @@ <<"4","8">> :> <<"T","r","a","n","s","p","o","r","t","a","t","i","o","n"," ","a","n","d"," ","W","a","r","e","h","o","u","s","i","n","g">>
    @@ <<"4","9">> :> <<"T","r","a","n","s","p","o","r","t","a","t","i","o","n"," ","a","n","d"," ","W","a","r","e","h","o","u","s","i","n","g">>
    @@ <<"5","1">> :> <<"I","n","f","o","r","m","a","t","i","o","n"," ","a","n","d"," ","C","u","l","t","u","r","a","l"," ","I","n","d","u","s","t","r","i","e","s">>
    @@ <<"5","2">> :> <<"F","i","n","a","n","c","e"," ","a","n","d"," ","I","n","s","u","r","a","n","c","e">>
    @@ <<"5","3">> :> <<"R","e","a","l"," ","E","s","t","a","t","e"," ","a","n","d"," ","R","e","n","t","a","l"," ","a","n","d"," ","L","e","a","s","i","n","g">>
    @@ <<"5","4">> :> <<"P","r","o","f","e","s","s","i","o","n","a","l",","," ","S","c","i","e","n","t","i","f","i","c"," ","a","n","d"," ","T","e","c","h","n","i","c","a","l"," ","S","e","r","v","i","c","e","s">>
    @@ <<"5","5">> :> <<"M","a","n","a","g","e","m","e","n","t"," ","o","f"," ","C","o","m","p","a","n","i","e","s"," ","a","n","d"," ","E","n","t","e","r","p","r","i","s","e","s">>
    @@ <<"5","6">> :> <<"A","d","m","i","n","i","s","t","r","a","t","i","v","e"," ","a","n","d"," ","S","u","p","p","o","r","t"," ","S","e","r","v","i","c","e","s">>
    @@ <<"6","1">> :> <<"E","d","u","c","a","t","i","o","n","a","l"," ","S","e","r","v","i","c","e","s">>
    @@ <<"6","2">> :> <<"H","e","a","l","t","h"," ","C","a","r","e"," ","a","n","d"," ","S","o","c","i","a","l"," ","A","s","s","i","s","t","a","n","c","e">>
    @@ <<"7","1">> :> <<"A","r","t","s",","," ","E","n","t","e","r","t","a","i","n","m","e","n","t"," ","a","n","d"," ","R","e","c","r","e","a","t","i","o","n">>
    @@ <<"7","2">> :> <<"A","c","c","o","m","m","o","d","a","t","i","o","n"," ","a","n","d"," ","F","o","o","d"," ","S","e","r","v","i","c","e","s">>
    @@ <<"8","1">> :> <<"O","t","h","e","r"," ","S","e","r","v","i","c","e","s">>
    @@ <<"9","1">> :> <<"P","u","b","l","i","c"," ","A","d","m","i","n","i","s","t","r","a","t","i","o","n">>

LabelUnknown == <<"U","n","k","n","o","w","n">>
LabelOther == <<"O","t","h","e","r">>

\* static naicsToIndustry(code)
naicsToIndustry(code) ==
    IF code = <<>> THEN LabelUnknown
    ELSE LET prefix2 == SubSeq(code, 1, IF Len(code) < 2 THEN Len(code) ELSE 2)
         IN  IF prefix2 \in DOMAIN NAICS_MAP THEN NAICS_MAP[prefix2] ELSE LabelOther

\* const industry = rec.naicsDescr || StatCanODBusLoader.naicsToIndustry(rec.naicsCode)
industryOf(rec) == OrElse(rec.naicsDescr, naicsToIndustry(rec.naicsCode))

\* the row _insertBatch inserts for a record; line is not a column, it remembers the
\* line of the CSV the row was read from
SmeRow(src, rec, job) ==
    [source |-> src, business_name |-> rec.businessName, naics_code |-> rec.naicsCode,
     industry |-> industryOf(rec), province |-> rec.province, city |-> rec.city,
     business_status |-> rec.status, corporate_number |-> <<>>, scrape_job_id |-> job,
     line |-> rec.line]

----------------------------------------------------------------------------
(* The CSV files the loader is given *)

\* the mapped columns as the register spells them
RawColumns == << <<"b","u","s","i","n","e","s","s","_","n","a","m","e">>, <<"d","e","r","i","v","e","d","_","N","A","I","C","S">>, <<"s","o","u","r","c","e","_","N","A","I","C","S","_","p","r","i","m","a","r","y">>, <<"N","A","I","C","S","_","d","e","s","c","r">>,
                 <<"p","r","o","v","_","t","e","r","r">>, <<"c","i","t","y">>, <<"s","t","a","t","u","s">>, <<"t","o","t","a","l","_","n","o","_","e","m","p","l","o","y","e","e","s">> >>

\* two layouts of the file: the columns in this order, bare or quoted
ColumnOrders == {<<1, 2, 3, 4, 5, 6, 7, 8>>, <<7, 5, 6, 8, 4, 3, 2, 1>>}
Layouts == [order : ColumnOrders, quoted : BOOLEAN]

Quoted(text) == <<"\"">> \o text \o <<"\"">>

\* the texts joined by commas
RECURSIVE joinCommas(_)
joinCommas(texts) ==
    IF texts = <<>> THEN <<>>
    ELSE IF Len(texts) = 1 THEN texts[1]
    ELSE texts[1] \o <<",">> \o joinCommas(Tail(texts))

HeaderLine(layout) ==
    joinCommas([k \in 1..8 |-> IF layout.quoted THEN Quoted(RawColumns[layout.order[k]])
                                                ELSE RawColumns[layout.order[k]]])

\* what a line may carry in the eight mapped columns; "Missing" cells are written with
\* the marker, bare, padded or quoted, or are left empty
NameCells == {<<"A","b">>, <<".",".">>, <<"\"","A",",","b","\"">>}
CodeCells == {<<<<"1","1">>, <<".",".">>>>, <<<<".",".">>, <<"2","3">>>>, <<<<"9","9">>, <<>>>>, <<<<".",".">>, <<".",".">>>>, <<<<>>, <<>>>>}
DescrCells == {<<".",".">>, <<"B","a","k","e","r","y">>}
RestCells == {<<<<".",".">>, <<".",".">>, <<".",".">>, <<".",".">>>>,
              <<<<"O","N">>, <<"O","t","t","a","w","a">>, <<"C","l","o","s","e","d">>, <<"5">>>>,
              <<<<"\"",".",".","\"">>, <<" ",".","."," ">>, <<"\""," ",".","."," ","\"">>, <<".",".">>>>}
Cells == [name : NameCells, codes : CodeCells, descr : DescrCells, rest : RestCells]

\* the cell of column c (an index of RawColumns)
CellOf(cells, c) ==
    CASE c = 1 -> cells.name
      [] c = 2 -> cells.codes[1]
      [] c = 3 -> cells.codes[2]
      [] c = 4 -> cells.descr
      [] OTHER -> cells.rest[c - 4]

DataLine(layout, cells) == joinCommas([k \in 1..8 |-> CellOf(cells, layout.order[k])])

\* a file: the header line and up to StatCanLines further lines, blank lines included
LinesOf(layout) == {DataLine(layout, c) : c \in Cells} \cup {<<>>}
CsvFiles ==
    UNION {{<<HeaderLine(layout)>> \o body :
                body \in UNION {[1..n -> LinesOf(layout)] : n \in 0..StatCanLines}} :
           layout \in Layouts}

----------------------------------------------------------------------------
(* StatCanODBusLoader.load *)

\* if (batch.length >= 500)
BatchSize == 500

ErrNoCsv == "No CSV files found in ZIP archive"

\* what no batch job touches: the state of the scrapers, of the orchestrator, of the
\* HTTP API, of the matching engine and of the helpers
outsideJobs == <<consecutiveErrors, session, searchIdx, records, sweepLog, mocked, mock, site,
                 ontarioVars, quebecVars, orchVars, adminVars, matchVars, pureVars,
                 albertaVars, overlapVars, webhookVars>>
\* the same and the stored persons
outsideBatch == <<scraped_cpas, outsideJobs>>
\* what a load leaves alone
loaderFrame == <<source, outsideBatch, enrichVars, corpVars>>

\* load(dbClient) is called
CallLoad ==
    /\ pc = "idle" /\ source = "statcan_odbus"
    /\ Len(returned) < 1
    /\ pc' = "startLoad"
    /\ jobId' = 0
    /\ totalFound' = 0 /\ totalInserted' = 0 /\ totalSkipped' = 0
    /\ error' = ""
    /\ event' = "called"
    /\ UNCHANGED <<dbVars, returned, batchVars, loaderFrame>>

\* const jobId = await this._startJob(dbClient)
LoadStartJob ==
    /\ pc = "startLoad"
    /\ scrape_jobs' = Append(scrape_jobs, JobRow(source))
    /\ jobId' = Len(scrape_jobs) + 1
    /\ pc' = "download"
    /\ event' = "jobStarted"
    /\ UNCHANGED <<scraped_cpas, counters, error, returned, batchVars, loaderFrame>>

\* the INSERT of _startJob rejects: load() rejects before its try block
LoadStartJobFails ==
    /\ pc = "startLoad"
    /\ pc' = "idle"
    /\ returned' = Append(returned, [kind |-> "throw", jobId |-> 0, found |-> 0,
                                     inserted |-> 0, skipped |-> 0, message |-> ErrDb])
    /\ event' = "threw"
    /\ UNCHANGED <<dbVars, jobId, counters, error, batchVars, loaderFrame>>

\* await axios.get(this.zipUrl) and the extraction of the largest CSV entry: the request
\* fails, the archive holds no CSV, or the lines of the main file are at hand
Download ==
    /\ pc = "download"
    /\ \/ /\ Fatal(ErrNetwork, "pageFailed")
          /\ UNCHANGED loaderVars
       \/ /\ Fatal(ErrNoCsv, "noCsv")
          /\ UNCHANGED loaderVars
       \/ /\ csv' \in CsvFiles
          /\ lineIdx' = 2
          /\ batch' = <<>>
          /\ pc' = "lines"
          /\ event' = "pageOk"
          /\ UNCHANGED <<error, batchRun>>
    /\ UNCHANGED <<dbVars, jobId, counters, returned, smeVars, loaderFrame>>

\* a record passes if (!businessName || businessName.length < 2) continue
hasBusinessName(rec) == rec.businessName # <<>> /\ Len(rec.businessName) >= 2

\* one iteration of for (let i = 1; i < lines.length; i++), up to the await of _insertBatch
ReadLine ==
    /\ pc = "lines" /\ lineIdx <= Len(csv)
    /\ lineIdx' = lineIdx + 1
    /\ IF trim(csv[lineIdx]) = <<>>
       THEN /\ event' = "blankLine"
            /\ UNCHANGED <<pc, totalFound, batch, batchRun>>
       ELSE /\ totalFound' = totalFound + 1
            /\ IF hasBusinessName(fieldsOf(csv, lineIdx))
               THEN /\ batch' = Append(batch, fieldsOf(csv, lineIdx))
                    /\ event' = "pushed"
                    /\ IF Len(batch') >= BatchSize
                       THEN pc' = "insertBatch" /\ batchRun' = [NoBatchRun EXCEPT !.idx = 1]
                       ELSE UNCHANGED <<pc, batchRun>>
               ELSE /\ event' = "noName"
                    /\ UNCHANGED <<pc, batch, batchRun>>
    /\ UNCHANGED <<dbVars, jobId, totalInserted, totalSkipped, error, returned, csv,
                   smeVars, loaderFrame>>

\* the loop has ended: if (batch.length > 0) the remaining records are inserted
LinesDone ==
    /\ pc = "lines" /\ lineIdx > Len(csv)
    /\ IF batch # <<>>
       THEN pc' = "insertRest" /\ batchRun' = [NoBatchRun EXCEPT !.idx = 1]
       ELSE pc' = "completeJob" /\ UNCHANGED batchRun
    /\ event' = "linesDone"
    /\ UNCHANGED <<dbVars, jobId, counters, error, returned, csv, lineIdx, batch,
                   smeVars, loaderFrame>>

\* _insertBatch: the INSERT of one record succeeds
InsertBatchRecord ==
    /\ pc \in {"insertBatch", "insertRest"} /\ batchRun.idx <= Len(batch)
    /\ scraped_smes' = Append(scraped_smes, SmeRow(source, batch[batchRun.idx], jobId))
    /\ batchRun' = [batchRun EXCEPT !.idx = @ + 1, !.inserted = @ + 1]
    /\ event' = "inserted"
    /\ UNCHANGED <<dbVars, pc, jobId, counters, error, returned, csv, lineIdx, batch,
                   loaderFrame>>

\* _insertBatch: the INSERT of one record rejects, catch (err) { skipped++; }
InsertBatchRecordFails ==
    /\ pc \in {"insertBatch", "insertRest"} /\ batchRun.idx <= Len(batch)
    /\ batchRun' = [batchRun EXCEPT !.idx = @ + 1, !.skipped = @ + 1]
    /\ event' = "recordFailed"
    /\ UNCHANGED <<dbVars, pc, jobId, counters, error, returned, csv, lineIdx, batch,
                   smeVars, loaderFrame>>

\* _insertBatch returns { inserted, skipped }; inside the loop batch.length = 0 follows
InsertBatchReturn ==
    /\ pc \in {"insertBatch", "insertRest"} /\ batchRun.idx > Len(batch)
    /\ totalInserted' = totalInserted + batchRun.inserted
    /\ totalSkipped' = totalSkipped + batchRun.skipped
    /\ IF pc = "insertBatch"
       THEN batch' = <<>> /\ pc' = "lines"
       ELSE UNCHANGED batch /\ pc' = "completeJob"
    /\ event' = "batchDone"
    /\ UNCHANGED <<dbVars, jobId, totalFound, error, returned, csv, lineIdx, batchRun,
                   smeVars, loaderFrame>>

InitStatCan ==
    /\ source = "statcan_odbus"
    /\ scrape_jobs = <<>>
    /\ scraped_cpas = EmptyBag
    /\ mocked = FALSE /\ mock = NoMock /\ site = PlainSite
    /\ RunIdle /\ OthersIdle

NextStatCan ==
    \/ CallLoad \/ LoadStartJob \/ LoadStartJobFails \/ Download
    \/ ReadLine \/ LinesDone
    \/ InsertBatchRecord \/ InsertBatchRecordFails \/ InsertBatchReturn
    \/ CompleteJob \/ CompleteJobFails \/ FailJob \/ FailJobFails \/ ReturnCounts

SpecStatCan == InitStatCan /\ [][NextStatCan]_vars

----------------------------------------------------------------------------
(* Properties of the loader *)

\* the ways a line writes a missing value: the marker bare, padded or quoted, or nothing
MissingCells == {<<>>, <<".",".">>, <<"\"",".",".","\"">>, <<" ",".","."," ">>, <<"\""," ",".","."," ","\"">>}

\* row i of scraped_smes was read from a line written as cells in a file laid out as layout
ReadFrom(i, layout, cells) ==
    /\ scraped_smes[i].line \in 2..Len(csv)
    /\ csv[1] = HeaderLine(layout)
    /\ csv[scraped_smes[i].line] = DataLine(layout, cells)

\* no column of the row holds the marker itself
NoMarkerStored(row) ==
    /\ row.business_name # MissingMarker /\ row.naics_code # MissingMarker
    /\ row.industry # MissingMarker /\ row.province # MissingMarker
    /\ row.city # MissingMarker /\ row.business_status # MissingMarker

\* C22: a field whose value is the marker '..' is stored as an empty field in every mapped
\* column, never as '..'; a row whose industry code is missing gets the industry 'Unknown'
\* and a row whose code is not in the table gets 'Other'
C22_MarkerIsEmptyAndIndustryFallsBack ==
    \A i \in 1..Len(scraped_smes) : \A layout \in Layouts : \A cells \in Cells :
        ReadFrom(i, layout, cells) =>
            LET row == scraped_smes[i]
            IN  /\ NoMarkerStored(row)
                /\ cells.rest[1] \in MissingCells => row.province = <<>>
                /\ cells.rest[2] \in MissingCells => row.city = <<>>
                /\ cells.rest[3] \in MissingCells => row.business_status = StatusActive
                /\ (cells.codes[1] \in MissingCells /\ cells.codes[2] \in MissingCells) =>
                       (row.naics_code = <<>> /\ row.industry = LabelUnknown)
                /\ cells.codes[1] = <<"9","9">> => row.industry = LabelOther

\* the part of C22 about the marker alone
MarkerIsEmpty ==
    \A i \in 1..Len(scraped_smes) : \A layout \in Layouts : \A cells \in Cells :
        ReadFrom(i, layout, cells) =>
            LET row == scraped_smes[i]
            IN  /\ NoMarkerStored(row)
                /\ cells.rest[1] \in MissingCells => row.province = <<>>
                /\ cells.rest[2] \in MissingCells => row.city = <<>>
                /\ cells.rest[3] \in MissingCells => row.business_status = StatusActive
                /\ (cells.codes[1] \in MissingCells /\ cells.codes[2] \in MissingCells) =>
                       row.naics_code = <<>>
                /\ cells.descr \in MissingCells =>
                       row.industry = naicsToIndustry(row.naics_code)

\* the part of C22 about the industry, for rows that carry no description of their own
IndustryFallsBack ==
    \A i \in 1..Len(scraped_smes) : \A layout \in Layouts : \A cells \in Cells :
        (ReadFrom(i, layout, cells) /\ cells.descr \in MissingCells) =>
            LET row == scraped_smes[i]
            IN  /\ (cells.codes[1] \in MissingCells /\ cells.codes[2] \in MissingCells) =>
                       row.industry = LabelUnknown
                /\ cells.codes[1] = <<"9","9">> => row.industry = LabelOther
                /\ cells.codes[1] = <<"1","1">> => row.industry = NAICS_MAP[<<"1","1">>]
                /\ cells.codes[2] = <<"2","3">> => row.industry = NAICS_MAP[<<"2","3">>]

----------------------------------------------------------------------------
(* FirmWebsiteEnricher.  In this part the rows of scraped_cpas are kept by id (a
   sequence, id = index, in the order of scraped_at) and carry the columns the enricher
   reads and writes; NULL is the empty string. *)

\* this.dailyLimit, 200 in the constructor, scaled to the size of the table of the model
dailyLimit == 1

NameAlNg == [first_name |-> <<"A","l">>, last_name |-> <<"N","g">>]
NoNames == [first_name |-> <<>>, last_name |-> <<>>]

PersonRow(names, firm, mail, enriched, st) ==
    [first_name |-> names.first_name, last_name |-> names.last_name, firm_name |-> firm,
     email |-> mail, enriched_email |-> enriched, enrichment_source |-> "", status |-> st]

\* the rows the scrapers and earlier runs may have left: a person with a firm and no
\* address (with and without a parsed name), one without a firm, one with an address of
\* its own, one already enriched
StoredPersons ==
    {PersonRow(NameAlNg, <<"A","b"," ","L","L","P">>, <<>>, <<>>, "raw"),
     PersonRow(NoNames, <<"A","b"," ","L","L","P">>, <<>>, <<>>, "raw"),
     PersonRow(NameAlNg, <<>>, <<>>, <<>>, "raw"),
     PersonRow(NameAlNg, <<"A","b"," ","L","L","P">>, <<"a","l","@","x",".","c","a">>, <<>>, "raw"),
     PersonRow(NameAlNg, <<"A","b"," ","L","L","P">>, <<>>, <<"a","l","@","a","b",".","c","a">>, "enriched")}

\* WHERE firm_name IS NOT NULL AND firm_name != '' AND email IS NULL
\*   AND enriched_email IS NULL AND status = 'raw'
needsEmail(row) ==
    /\ row.firm_name # <<>>
    /\ row.email = <<>> /\ row.enriched_email = <<>>
    /\ row.status = "raw"

\* the first n elements of a sequence
firstN(s, n) == SubSeq(s, 1, IF Len(s) < n THEN Len(s) ELSE n)

\* the ids of the rows of table that satisfy the WHERE clause, in the order of scraped_at
EligibleIds(table) ==
    LET F[i \in 0..Len(table)] ==
            IF i = 0 THEN <<>>
            ELSE IF needsEmail(table[i]) THEN Append(F[i - 1], i) ELSE F[i - 1]
    IN  F[Len(table)]

\* variant: the selection without its LIMIT
selectUnlimited(table, n) == EligibleIds(table)

\* SELECT ... ORDER BY scraped_at ASC LIMIT $1
selectForEnrichment(table, n) == firstN(EligibleIds(table), n)

\* e.match(/^(info|contact|admin|support|noreply|no-reply|hello|office)@/i)
GenericPrefixes == {<<"i","n","f","o","@">>, <<"c","o","n","t","a","c","t","@">>, <<"a","d","m","i","n","@">>, <<"s","u","p","p","o","r","t","@">>, <<"n","o","r","e","p","l","y","@">>,
                    <<"n","o","-","r","e","p","l","y","@">>, <<"h","e","l","l","o","@">>, <<"o","f","f","i","c","e","@">>}
isGeneric(e) ==
    \E p \in GenericPrefixes :
        Len(e) >= Len(p) /\ toLowerCase(SubSeq(e, 1, Len(p))) = p

\* emailLower.includes(firstName) || emailLower.includes(lastName)
matchesName(cpa, e) ==
    \/ StrIncludes(toLowerCase(e), toLowerCase(cpa.first_name))
    \/ StrIncludes(toLowerCase(e), toLowerCase(cpa.last_name))

\* what the three candidate domains answer, in the order they are tried: nothing, or a
\* page with these addresses
Unreachable == [ok |-> FALSE, emails |-> <<>>]
PageWith(es) == [ok |-> TRUE, emails |-> es]
SiteAnswers ==
    {<<Unreachable, Unreachable, Unreachable>>,
     <<PageWith(<<>>), PageWith(<<>>), PageWith(<<>>)>>,
     <<PageWith(<<>>), Unreachable, PageWith(<<<<"i","n","f","o","@","a","b",".","c","a">>>>)>>,
     <<Unreachable, PageWith(<<<<"I","n","f","o","@","a","b",".","c","a">>, <<"b","o","@","a","b",".","c","a">>, <<"a","l",".","n","g","@","a","b",".","c","a">>>>), Unreachable>>,
     <<PageWith(<<<<"b","o","@","a","b",".","c","a">>>>), PageWith(<<<<"a","l",".","n","g","@","a","b",".","c","a">>>>), Unreachable>>}

\* the address one reachable page yields, null when it shows none
pickEmail(cpa, emails) ==
    LET nonGeneric == SelectSeq(emails, LAMBDA e : ~isGeneric(e))
        named == SelectSeq(nonGeneric, LAMBDA e : matchesName(cpa, e))
    IN  IF named # <<>> THEN Str(named[1])
        ELSE IF nonGeneric # <<>> THEN Str(nonGeneric[1])
        ELSE IF emails # <<>> THEN Str(emails[1])
        ELSE null

\* FirmWebsiteEnricher._findEmailForCPA(cpa) when the candidate domains answer as answers
RECURSIVE findEmailForCPA(_, _)
findEmailForCPA(cpa, answers) ==
    IF answers = <<>> THEN null
    ELSE IF Head(answers).ok /\ pickEmail(cpa, Head(answers).emails) # null
         THEN pickEmail(cpa, Head(answers).emails)
    ELSE findEmailForCPA(cpa, Tail(answers))

----------------------------------------------------------------------------
(* FirmWebsiteEnricher.enrich *)

\* what a run of the enricher leaves alone
enrichFrame == <<source, outsideJobs, smeVars, loaderVars, corpVars>>
enrichCounters == <<totalProcessed, totalEnriched>>

\* what a finished enrich() call returned or threw; found and inserted stand for
\* processed and enriched
EnrichResult(kind, msg) ==
    [kind |-> kind, jobId |-> jobId, found |-> totalProcessed, inserted |-> totalEnriched,
     skipped |-> 0, message |-> msg]

\* enrich(dbClient) is called
CallEnrich ==
    /\ pc = "idle" /\ source = "email_enrichment"
    /\ Len(returned) < MaxEnrichRuns
    /\ pc' = "startEnrich"
    /\ jobId' = 0
    /\ cpas' = <<>> /\ cpaAt' = 0 /\ totalProcessed' = 0 /\ totalEnriched' = 0
    /\ email' = null /\ error' = ""
    /\ event' = "called"
    /\ UNCHANGED <<dbVars, counters, returned, enrichFrame>>

\* const jobId = await this._startJob(dbClient)
EnrichStartJob ==
    /\ pc = "startEnrich"
    /\ scrape_jobs' = Append(scrape_jobs, JobRow(source))
    /\ jobId' = Len(scrape_jobs) + 1
    /\ pc' = "select"
    /\ event' = "jobStarted"
    /\ UNCHANGED <<scraped_cpas, counters, error, returned, enrichVars, enrichFrame>>

\* the INSERT of _startJob rejects: enrich() rejects before its try block
EnrichStartJobFails ==
    /\ pc = "startEnrich"
    /\ pc' = "idle"
    /\ returned' = Append(returned, [EnrichResult("throw", ErrDb) EXCEPT !.jobId = 0])
    /\ event' = "threw"
    /\ UNCHANGED <<dbVars, jobId, counters, error, enrichVars, enrichFrame>>

\* throw inside the try block of enrich(): control moves to its catch
EnrichFatal(msg, ev) ==
    /\ error' = msg
    /\ pc' = "failEnrich"
    /\ event' = ev

\* const cpas = await dbClient.query(SELECT ... LIMIT $1, [this.dailyLimit])
SelectCpas ==
    /\ pc = "select"
    /\ cpas' = selectForEnrichment(scraped_cpas, dailyLimit)
    /\ cpaAt' = 1
    /\ pc' = IF cpas' = <<>> THEN "completeEnrich" ELSE "find"
    /\ event' = "selected"
    /\ UNCHANGED <<dbVars, jobId, counters, error, returned, enrichCounters, email,
                   enrichFrame>>

\* the SELECT rejects
SelectCpasFails ==
    /\ pc = "select"
    /\ EnrichFatal(ErrDb, "selectFailed")
    /\ UNCHANGED <<dbVars, jobId, counters, returned, enrichVars, enrichFrame>>

\* totalProcessed++; const email = await this._findEmailForCPA(cpa); the helper catches
\* every error of its own and then returns null
FindEmail ==
    /\ pc = "find"
    /\ totalProcessed' = totalProcessed + 1
    /\ \E answers \in SiteAnswers :
         email' = findEmailForCPA(scraped_cpas[cpas[cpaAt]], answers)
    /\ pc' = IF email' # null THEN "update" ELSE "delayEnrich"
    /\ event' = IF email' # null THEN "emailFound" ELSE "noEmail"
    /\ UNCHANGED <<dbVars, jobId, counters, error, returned, cpas, cpaAt, totalEnriched,
                   enrichFrame>>

\* UPDATE scraped_cpas SET enriched_email = $2, enrichment_source = 'firm_website',
\*   status = 'enriched' WHERE id = $1
enrichRow(row, mail) ==
    [row EXCEPT !.enriched_email = mail, !.enrichment_source = "firm_website",
                !.status = "enriched"]

\* if (email) { await dbClient.query(UPDATE ...); totalEnriched++; }
UpdateCpa ==
    /\ pc = "update"
    /\ scraped_cpas' = [scraped_cpas EXCEPT ![cpas[cpaAt]] = enrichRow(@, email.s)]
    /\ totalEnriched' = totalEnriched + 1
    /\ pc' = "delayEnrich"
    /\ event' = "enriched"
    /\ UNCHANGED <<scrape_jobs, jobId, counters, error, returned, cpas, cpaAt,
                   totalProcessed, email, enrichFrame>>

\* the UPDATE rejects: catch (err) logs it, the record stays as it was
UpdateCpaFails ==
    /\ pc = "update"
    /\ pc' = "delayEnrich"
    /\ event' = "recordFailed"
    /\ UNCHANGED <<dbVars, jobId, counters, error, returned, enrichVars, enrichFrame>>

\* await delay(this.delayMs), then the next record
EnrichDelay ==
    /\ pc = "delayEnrich"
    /\ cpaAt' = cpaAt + 1
    /\ pc' = IF cpaAt' > Len(cpas) THEN "completeEnrich" ELSE "find"
    /\ event' = "delayed"
    /\ UNCHANGED <<dbVars, jobId, counters, error, returned, cpas, enrichCounters, email,
                   enrichFrame>>

\* await this._completeJob(dbClient, jobId, totalProcessed, totalEnriched)
EnrichCompleteJob ==
    /\ pc = "completeEnrich"
    /\ scrape_jobs' = [scrape_jobs EXCEPT ![jobId].status = "completed",
                                          ![jobId].records_found = totalProcessed,
                                          ![jobId].records_inserted = totalEnriched]
    /\ pc' = "returnEnrich"
    /\ event' = "completed"
    /\ UNCHANGED <<scraped_cpas, jobId, counters, error, returned, enrichVars, enrichFrame>>

\* the UPDATE of _completeJob rejects inside the try block
EnrichCompleteJobFails ==
    /\ pc = "completeEnrich"
    /\ EnrichFatal(ErrDb, "completeFailed")
    /\ UNCHANGED <<dbVars, jobId, counters, returned, enrichVars, enrichFrame>>

\* catch (error) { await this._failJob(dbClient, jobId, error.message) }
EnrichFailJob ==
    /\ pc = "failEnrich"
    /\ scrape_jobs' = failJobRow(scrape_jobs, jobId, error)
    /\ pc' = "returnEnrich"
    /\ event' = "failed"
    /\ UNCHANGED <<scraped_cpas, jobId, counters, error, returned, enrichVars, enrichFrame>>

\* the UPDATE of _failJob rejects inside the catch block: enrich() rejects
EnrichFailJobFails ==
    /\ pc = "failEnrich"
    /\ pc' = "idle"
    /\ returned' = Append(returned, EnrichResult("throw", ErrDb))
    /\ event' = "threw"
    /\ UNCHANGED <<dbVars, jobId, counters, error, enrichVars, enrichFrame>>

\* return { processed: totalProcessed, enriched: totalEnriched }
EnrichReturn ==
    /\ pc = "returnEnrich"
    /\ pc' = "idle"
    /\ returned' = Append(returned, EnrichResult("return", ""))
    /\ event' = "returned"
    /\ UNCHANGED <<dbVars, jobId, counters, error, enrichVars, enrichFrame>>

StoredTables == UNION {[1..n -> StoredPersons] : n \in 0..MaxStored}

InitEnrich ==
    /\ source = "email_enrichment"
    /\ scrape_jobs = <<>>
    /\ scraped_cpas \in StoredTables
    /\ mocked = FALSE /\ mock = NoMock /\ site = PlainSite
    /\ RunIdle /\ OthersIdle

NextEnrich ==
    \/ CallEnrich \/ EnrichStartJob \/ EnrichStartJobFails
    \/ SelectCpas \/ SelectCpasFails
    \/ FindEmail \/ UpdateCpa \/ UpdateCpaFails \/ EnrichDelay
    \/ EnrichCompleteJob \/ EnrichCompleteJobFails
    \/ EnrichFailJob \/ EnrichFailJobFails \/ EnrichReturn

SpecEnrich == InitEnrich /\ [][NextEnrich]_vars

----------------------------------------------------------------------------
(* Properties of the enricher *)

\* the record the running iteration of enrich() is about
CurrentCpa == scraped_cpas[cpas[cpaAt]]

\* a step that changes a stored person is the UPDATE of the record at hand, made after an
\* address was found for it; it sets enriched_email to that address and the status to
\* 'enriched' and changes no other record
OnlyEnrichmentChangesRecords ==
    scraped_cpas' # scraped_cpas =>
        /\ pc = "update" /\ email # null /\ email.s # <<>>
        /\ Len(scraped_cpas') = Len(scraped_cpas)
        /\ \A id \in 1..Len(scraped_cpas) :
              id # cpas[cpaAt] => scraped_cpas'[id] = scraped_cpas[id]
        /\ scraped_cpas'[cpas[cpaAt]] =
              [CurrentCpa EXCEPT !.enriched_email = email.s, !.status = "enriched",
                                 !.enrichment_source = "firm_website"]

\* the selection takes at most dailyLimit records, none of them enriched or with an address
SelectionIsBoundedAndFresh ==
    event' = "selected" =>
        /\ Len(cpas') <= dailyLimit
        /\ \A k \in 1..Len(cpas') :
              LET row == scraped_cpas[cpas'[k]]
              IN  row.status = "raw" /\ row.enriched_email = <<>> /\ row.email = <<>>

\* an iteration that ends without an address, or whose UPDATE was rejected, leaves its
\* record as it was selected: status 'raw', no address, eligible for the next run
UnenrichedStaysEligible ==
    (pc = "delayEnrich" /\ event' = "delayed" /\ event # "enriched") =>
        /\ scraped_cpas'[cpas[cpaAt]] = CurrentCpa
        /\ CurrentCpa.status = "raw" /\ needsEmail(CurrentCpa)
        /\ cpas[cpaAt] \in {EligibleIds(scraped_cpas')[k] : k \in 1..Len(EligibleIds(scraped_cpas'))}

\* C23: enrich changes a person record only when an address was found for it (it sets
\* enriched_email and the status 'enriched'); a record for which none is found or whose
\* lookup or UPDATE fails stays unchanged with status 'raw' and eligible for a later run;
\* an enriched record is never selected again; one run processes at most dailyLimit records
C23_EnrichChangesOnlyOnSuccess ==
    /\ [][OnlyEnrichmentChangesRecords /\ SelectionIsBoundedAndFresh
          /\ UnenrichedStaysEligible]_vars
    /\ [](totalProcessed <= dailyLimit /\ totalEnriched <= totalProcessed)

\* two runs over a table with more eligible records than the limit: the first finds no
\* address for the oldest record, the second selects it again and enriches it, and a
\* younger eligible record is still waiting
C23_Witness ==
    /\ pc = "idle" /\ source = "email_enrichment" /\ Len(returned) = 2
    /\ returned[1].kind = "return" /\ returned[1].found = dailyLimit /\ returned[1].inserted = 0
    /\ returned[2].kind = "return" /\ returned[2].inserted = dailyLimit
    /\ scraped_cpas[1].status = "enriched" /\ scraped_cpas[1].enrichment_source = "firm_website"
    /\ needsEmail(scraped_cpas[Len(scraped_cpas)])

----------------------------------------------------------------------------
(* CorporationsCanadaAPI.scrape *)

\* the corporations of the registry of the model: their numbers, and the same as the
\* digits of a result link (corpId=...)
CorpNumbers == {101, 102}
Digits(n) == IF n = 101 THEN <<"1","0","1">> ELSE <<"1","0","2">>
LinkIds == {Digits(n) : n \in CorpNumbers}

\* the result links of one search page, in document order; a page may link one
\* corporation twice
LinkLists == UNION {[1..n -> LinkIds] : n \in 0..CorpLinks}

\* what the detail API answers for the corporation of a result link: nothing, or its
\* record, whose corporationId is its number or is absent
CorpName == <<"A","b"," ","I","n","c">>
DetailData(corpId) ==
    {null} \cup [corporationId : {Undefined} \cup {Num(n) : n \in {m \in CorpNumbers : Digits(m) = corpId}},
                 name : {CorpName}]

\* value.toString() of a number or a string of digits
toString(v) == IF v.t = "number" THEN Digits(v.n) ELSE v.s

\* const corpNumber = data.corporationId || corpId, as the text that is stored
corpNumberOf(data, corpId) ==
    IF Truthy(data.corporationId) THEN toString(data.corporationId) ELSE corpId

\* variant: a duplicate check that never finds a stored row
SelectNoNumber(table, number) == {}

\* SELECT id FROM scraped_smes WHERE corporate_number = $1
SelectByNumber(table, number) ==
    {id \in 1..Len(table) : table[id].corporate_number = number}

\* the row scrape inserts; the columns it does not set are NULL
CorpRow(src, data, number, job) ==
    [source |-> src, business_name |-> data.name, naics_code |-> <<>>,
     industry |-> <<>>, province |-> <<>>, city |-> <<>>,
     business_status |-> StatusActive, corporate_number |-> number,
     scrape_job_id |-> job, line |-> 0]

\* what a run of the registry scraper leaves alone
corpFrame == <<source, outsideBatch, loaderVars, enrichVars>>

\* scrape(dbClient) is called
CallCorpScrape ==
    /\ pc = "idle" /\ source = "corporations_canada"
    /\ Len(returned) < MaxCorpRuns
    /\ pc' = "startCorp"
    /\ jobId' = 0
    /\ totalFound' = 0 /\ totalInserted' = 0 /\ totalSkipped' = 0
    /\ si' = 0 /\ corpIds' = <<>> /\ corpAt' = 0 /\ corpData' = null
    /\ error' = ""
    /\ event' = "called"
    /\ UNCHANGED <<dbVars, returned, smeVars, corpFrame>>

\* const jobId = await this._startJob(dbClient)
CorpStartJob ==
    /\ pc = "startCorp"
    /\ scrape_jobs' = Append(scrape_jobs, JobRow(source))
    /\ jobId' = Len(scrape_jobs) + 1
    /\ si' = 1
    /\ pc' = "searchCorp"
    /\ event' = "jobStarted"
    /\ UNCHANGED <<scraped_cpas, counters, error, returned, corpIds, corpAt, corpData,
                   smeVars, corpFrame>>

\* the INSERT of _startJob rejects: scrape() rejects before its try block
CorpStartJobFails ==
    /\ pc = "startCorp"
    /\ pc' = "idle"
    /\ returned' = Append(returned, [kind |-> "throw", jobId |-> 0, found |-> 0,
                                     inserted |-> 0, skipped |-> 0, message |-> ErrDb])
    /\ event' = "threw"
    /\ UNCHANGED <<dbVars, jobId, counters, error, corpVars, smeVars, corpFrame>>

\* where the loop over corpIds goes on from position at
nextCorp(at) == IF at > Len(corpIds) THEN "delayCorpTerm" ELSE "detail"

\* await axios.post(this.searchUrl, ...) for searchTerms[si] and the parse of the result
\* links; a rejected request is caught by the try block of the term
CorpSearch ==
    /\ pc = "searchCorp"
    /\ \/ /\ pc' = "delayCorpTerm"
          /\ event' = "searchFailed"
          /\ UNCHANGED <<totalFound, corpIds, corpAt>>
       \/ \E ids \in LinkLists :
            /\ corpIds' = ids
            /\ totalFound' = totalFound + Len(ids)
            /\ corpAt' = 1
            /\ pc' = IF ids = <<>> THEN "delayCorpTerm" ELSE "detail"
            /\ event' = "searched"
    /\ UNCHANGED <<dbVars, jobId, totalInserted, totalSkipped, error, returned, si,
                   corpData, smeVars, corpFrame>>

\* await axios.get(detailUrl/corpId.json): the request rejects (caught, the delay follows),
\* or there is no data (continue, without the delay), or the data are at hand
CorpDetail ==
    /\ pc = "detail"
    /\ \/ /\ pc' = "delayDetail"
          /\ event' = "detailFailed"
          /\ UNCHANGED <<corpAt, corpData>>
       \/ \E data \in DetailData(corpIds[corpAt]) :
            IF data = null
            THEN /\ corpAt' = corpAt + 1
                 /\ pc' = nextCorp(corpAt')
                 /\ event' = "noData"
                 /\ UNCHANGED corpData
            ELSE /\ corpData' = data
                 /\ pc' = "dedupCorp"
                 /\ event' = "detailOk"
                 /\ UNCHANGED corpAt
    /\ UNCHANGED <<dbVars, jobId, counters, error, returned, si, corpIds, smeVars,
                   corpFrame>>

\* const existing = await dbClient.query(SELECT ...);
\* if (existing.rows.length > 0) { totalSkipped++; continue; }
CorpDedupCheck ==
    /\ pc = "dedupCorp"
    /\ IF SelectByNumber(scraped_smes, corpNumberOf(corpData, corpIds[corpAt])) # {}
       THEN /\ totalSkipped' = totalSkipped + 1
            /\ corpAt' = corpAt + 1
            /\ pc' = nextCorp(corpAt')
            /\ event' = "skipped"
       ELSE /\ pc' = "insertCorp"
            /\ event' = "isNew"
            /\ UNCHANGED <<totalSkipped, corpAt>>
    /\ UNCHANGED <<dbVars, jobId, totalFound, totalInserted, error, returned, si, corpIds,
                   corpData, smeVars, corpFrame>>

\* await dbClient.query(INSERT INTO scraped_smes ...); totalInserted++
CorpInsert ==
    /\ pc = "insertCorp"
    /\ scraped_smes' = Append(scraped_smes,
                              CorpRow(source, corpData,
                                      corpNumberOf(corpData, corpIds[corpAt]), jobId))
    /\ totalInserted' = totalInserted + 1
    /\ pc' = "delayDetail"
    /\ event' = "inserted"
    /\ UNCHANGED <<dbVars, jobId, totalFound, totalSkipped, error, returned, corpVars,
                   corpFrame>>

\* the SELECT or the INSERT rejects: catch (detailErr) skips the corporation
CorpQueryFails ==
    /\ pc \in {"dedupCorp", "insertCorp"}
    /\ pc' = "delayDetail"
    /\ event' = "recordFailed"
    /\ UNCHANGED <<dbVars, jobId, counters, error, returned, corpVars, smeVars, corpFrame>>

\* await delay(500), then the next corporation
CorpDetailDelay ==
    /\ pc = "delayDetail"
    /\ corpAt' = corpAt + 1
    /\ pc' = nextCorp(corpAt')
    /\ event' = "delayed"
    /\ UNCHANGED <<dbVars, jobId, counters, error, returned, si, corpIds, corpData,
                   smeVars, corpFrame>>

\* await delay(3000), then the next search term
CorpTermDelay ==
    /\ pc = "delayCorpTerm"
    /\ si' = si + 1
    /\ pc' = IF si' > CorpTerms THEN "completeJob" ELSE "searchCorp"
    /\ event' = "termDone"
    /\ UNCHANGED <<dbVars, jobId, counters, error, returned, corpIds, corpAt, corpData,
                   smeVars, corpFrame>>

InitCorp ==
    /\ source = "corporations_canada"
    /\ scrape_jobs = <<>>
    /\ scraped_cpas = EmptyBag
    /\ mocked = FALSE /\ mock = NoMock /\ site = PlainSite
    /\ RunIdle /\ OthersIdle

NextCorp ==
    \/ CallCorpScrape \/ CorpStartJob \/ CorpStartJobFails
    \/ CorpSearch \/ CorpDetail \/ CorpDedupCheck \/ CorpInsert \/ CorpQueryFails
    \/ CorpDetailDelay \/ CorpTermDelay
    \/ CompleteJob \/ CompleteJobFails \/ FailJob \/ FailJobFails \/ ReturnCounts

SpecCorp == InitCorp /\ [][NextCorp]_vars

----------------------------------------------------------------------------
(* Properties of the registry scraper *)

\* the number of the corporation the running iteration is about
CurrentNumber == corpNumberOf(corpData, corpIds[corpAt])

\* the numbers stored in a table of business records
NumbersStored(table) == {table[id].corporate_number : id \in 1..Len(table)} \ {<<>>}

\* no two business records carry the same corporate number
NumbersAreUnique ==
    \A i, j \in 1..Len(scraped_smes) :
        (i # j /\ scraped_smes[i].corporate_number # <<>>) =>
            scraped_smes[i].corporate_number # scraped_smes[j].corporate_number

\* when the duplicate check is answered for a corporation whose number is stored, the
\* corporation is counted as skipped and the INSERT is not reached
StoredIsSkipped ==
    (pc = "dedupCorp" /\ event' # "recordFailed"
       /\ CurrentNumber \in NumbersStored(scraped_smes)) =>
        /\ totalSkipped' = totalSkipped + 1
        /\ totalInserted' = totalInserted
        /\ scraped_smes' = scraped_smes
        /\ pc' # "insertCorp"

\* a step that stores a business record stores one record, with a number not yet stored
InsertsOnlyNew ==
    scraped_smes' # scraped_smes =>
        /\ Len(scraped_smes') = Len(scraped_smes) + 1
        /\ SubSeq(scraped_smes', 1, Len(scraped_smes)) = scraped_smes
        /\ scraped_smes'[Len(scraped_smes')].corporate_number \notin NumbersStored(scraped_smes)

\* C24: after any sequence of runs of CorporationsCanadaAPI.scrape, one after the other, no
\* two business records share a corporate number; a corporation whose number is stored is
\* counted as skipped and not inserted again, also when several search terms of one run
\* return it
C24_CorporateNumberIsUnique ==
    /\ []NumbersAreUnique
    /\ [][StoredIsSkipped /\ InsertsOnlyNew]_vars

\* one corporation returned by both search terms of a first run (inserted once, skipped
\* once) and again by both terms of a second run (skipped twice)
C24_Witness ==
    /\ pc = "idle" /\ source = "corporations_canada" /\ Len(returned) = 2
    /\ returned[1].found = 2 /\ returned[1].inserted = 1 /\ returned[1].skipped = 1
    /\ returned[2].found = 2 /\ returned[2].inserted = 0 /\ returned[2].skipped = 2
    /\ Len(scraped_smes) = 1


----------------------------------------------------------------------------
(* The hidden inputs a search POST carries *)

\* the scraper is about to POST a search term
AboutToSearch == pc = "search" /\ source \in SweepSources

\* C26: every search POST carries the hidden inputs extracted from the latest
\* response to a request for the search form (the first page, the previous
\* search response, or the page of a re-established session); an older set is
\* never submitted
C26_PostCarriesLatestHiddenFields ==
    AboutToSearch => hiddenFields = latestHidden

\* the cases of C26 that hold: a response with hidden inputs replaces the carried set,
\* and the carried set is otherwise the last non-empty one
CarriedIsLatestNonEmpty ==
    AboutToSearch /\ fieldCount(latestHidden) > 0 => hiddenFields = latestHidden


----------------------------------------------------------------------------
(* Delays between the requests of one run *)

\* the positions at which the run sends an HTTP request to the directory site
RequestPositions == {"agreement", "searchPage", "search", "reAgreement", "reSearchPage"}
\* the positions at which the run awaits delay(...)
DelayPositions == {"delayAgreement", "reDelay", "delay"}

\* a step that sends a request and is followed at once by the next request
RequestAfterRequest ==
    /\ source \in SweepSources
    /\ pc \in RequestPositions
    /\ pc' \in RequestPositions

\* C28: within one run a delay step occurs between any two consecutive requests to
\* the site, the first search after the page load and the re-establishment
\* request after a failed search included
C28_DelayBetweenRequests == [][~RequestAfterRequest]_vars

\* the part of C28 that holds: a search POST is never followed at once by another
\* search POST, and the two requests of a CPABC session are a delay apart
DelayBetweenSearches ==
    [][RequestAfterRequest =>
          \/ pc = "searchPage" /\ pc' = "search"
          \/ pc = "search" /\ pc' \in {"reAgreement", "reSearchPage"}]_vars


----------------------------------------------------------------------------
(* The cookie jar of a session *)

\* the same scrapers against a site that sets two cookies
SessionSources == {"cpabc", "cpamb"}
InitSession ==
    /\ source \in SessionSources
    /\ scrape_jobs = <<>>
    /\ scraped_cpas = EmptyBag
    /\ mocked = FALSE /\ mock = NoMock /\ site = TwoCookieSite
    /\ RunIdle /\ OthersIdle

SpecSession == InitSession /\ [][NextSweep]_vars


jarNames(jar) == {jar[i].k : i \in 1..Len(jar)}

\* every cookie received in the session is in the jar, once, with its latest value,
\* and the jar holds nothing else
JarHoldsLatest ==
    /\ jarNames(cookies) = DOMAIN received
    /\ \A n \in DOMAIN received :
          /\ \E i \in 1..Len(cookies) : cookies[i] = [k |-> n, v |-> received[n]]
          /\ Cardinality({i \in 1..Len(cookies) : cookies[i].k = n}) = 1

\* the steps that start a session: the call itself, and the first request of a
\* re-establishment
StartsSession ==
    \/ pc = "idle"
    \/ pc = "reAgreement"
    \/ pc = "reSearchPage" /\ ~IsBC

\* C27: after any sequence of responses of one session every cookie name received
\* is in the carried jar with the value of the latest response that set it; a
\* merge removes no name, and only a session (re-)establishment replaces the jar
C27_JarKeepsEveryCookie ==
    /\ []JarHoldsLatest
    /\ [][jarNames(cookies) \subseteq jarNames(cookies') \/ StartsSession]_vars

\* a later response has overwritten one of two cookies and left the other alone
\* (no single response sets this pair of values)
C27_Witness ==
    /\ cookies = <<[k |-> "ASP.NET_SessionId", v |-> "s2"],
                   [k |-> "__RequestVerificationToken", v |-> "t2"]>>
    /\ event = "searchOk"

\* a re-establishment has replaced a jar of two cookies by a jar of one
JarReplaced ==
    /\ event = "reestablished" /\ ~IsBC
    /\ jarNames(cookies) = {"__RequestVerificationToken"}


----------------------------------------------------------------------------
(* CPAAlbertaScraper: surname searches, narrowed by first-name initial *)

\* COMMON_CANADIAN_LAST_NAMES.length and firstNameInitials.length (26) of the model
AlbertaSurnames == 2
NumInitials == 2

\* the names a result page may list; the last one is shorter than three characters
AbJohn == <<"J","o","h","n"," ","D"," ","S","M","I","T","H",","," ","C","P","A">>
AbJane == <<"S","M","I","T","H",","," ","J","a","n","e">>
AbShort == <<"L","i">>

\* a result page: its h3 heading, whether it has form#ShowMemberDetails, the name
\* cells of that form's table, and the member name of a detail table
AbPage(h, f, r, m) == [h3 |-> h, multiForm |-> f, rows |-> r, memberName |-> m]
RefineHeading == "Refine your Search"
NoResultsHeading == "No Results Found"
AlbertaPages ==
    {AbPage(RefineHeading, FALSE, <<>>, <<>>),
     AbPage(NoResultsHeading, FALSE, <<>>, <<>>),
     AbPage("", TRUE, <<AbJohn>>, <<>>),
     AbPage("", TRUE, <<AbShort, AbJane, AbJohn>>, <<>>),
     AbPage("", FALSE, <<>>, AbJane),
     AbPage("", FALSE, <<>>, <<>>)}
\* answers to POST searchUrl: the request rejects, or a page
AbFailure == [ok |-> FALSE, page |-> AbPage("", FALSE, <<>>, <<>>)]
AlbertaResponses == {AbFailure} \cup {[ok |-> TRUE, page |-> p] : p \in AlbertaPages}

\* the name texts _searchAndParse hands to _insertRecord, in order
RECURSIVE longEnough(_)
longEnough(rows) ==
    IF rows = <<>> THEN <<>>
    ELSE IF Len(trim(Head(rows))) < 3 THEN longEnough(Tail(rows))
    ELSE <<trim(Head(rows))>> \o longEnough(Tail(rows))

namesOf(html) ==
    IF html.multiForm THEN longEnough(html.rows)
    ELSE IF html.memberName # <<>> THEN <<html.memberName>>
    ELSE <<>>

\* _insertRecord for the first k names: the table and the counts it leaves
RECURSIVE insertRecords(_, _, _, _)
insertRecords(table, names, k, job) ==
    IF k = 0 THEN [table |-> table, found |-> 0, inserted |-> 0, skipped |-> 0]
    ELSE LET before == insertRecords(table, names, k - 1, job)
             record == parseName(names[k])
         IN  IF SelectByHash(before.table, record.nameHash) # {}
             THEN [before EXCEPT !.found = @ + 1, !.skipped = @ + 1]
             ELSE [table |-> before.table (+) SetToBag({CpaRow("cpaalberta", record.fullName,
                                                               record.nameHash, job)}),
                   found |-> before.found + 1,
                   inserted |-> before.inserted + 1,
                   skipped |-> before.skipped]

\* how one _searchAndParse call may end on a response: it throws (the request or a
\* query of the k-th record rejects, the records before it stored), or it returns
AbThrew(table, byQuery) == [threw |-> TRUE, query |-> byQuery, tooMany |-> FALSE,
                            table |-> table, found |-> 0, inserted |-> 0, skipped |-> 0]
AbReturned(r, refused) == [threw |-> FALSE, query |-> FALSE, tooMany |-> refused,
                           table |-> r.table,
                           found |-> r.found, inserted |-> r.inserted, skipped |-> r.skipped]
searchAndParse(table, res, job) ==
    IF ~res.ok THEN {AbThrew(table, FALSE)}
    ELSE IF res.page.h3 = RefineHeading
         THEN {AbReturned(insertRecords(table, <<>>, 0, job), TRUE)}
    ELSE IF res.page.h3 = NoResultsHeading
         THEN {AbReturned(insertRecords(table, <<>>, 0, job), FALSE)}
    ELSE LET names == namesOf(res.page)
         IN  {AbReturned(insertRecords(table, names, Len(names), job), FALSE)}
             \cup {AbThrew(insertRecords(table, names, k - 1, job).table, TRUE) :
                      k \in 1..Len(names)}

\* what the Alberta run leaves alone
albertaFrame == <<scrape_jobs, jobId, error, returned, consecutiveErrors, session, records,
                  attempted, failStreak, reestablishFailed, wire, source, mocked, mock, site, ontarioVars, quebecVars, orchVars,
                  adminVars, matchVars, pureVars, smeVars, loaderVars, enrichVars, corpVars,
                  overlapVars, webhookVars>>

AddCounts(r) ==
    /\ totalFound' = totalFound + r.found
    /\ totalInserted' = totalInserted + r.inserted
    /\ totalSkipped' = totalSkipped + r.skipped

\* variant: a failed narrowed sub-search ends the narrowing of its surname
afterNarrowedFailureStops == "abDelay"
\* catch (err) of a narrowed sub-search: the error is logged, the loop goes on
afterNarrowedFailure == "abInitialDelay"

\* const result = await this._searchAndParse(dbClient, lastName, '', jobId)
AbSurnameSearch ==
    /\ pc = "abSurname" /\ source = "cpaalberta"
    /\ requests' = requests + 1
    /\ base' = <<totalFound, totalInserted, totalSkipped>>
    /\ subResults' = <<>>
    /\ \E res \in AlbertaResponses : \E r \in searchAndParse(scraped_cpas, res, jobId) :
         /\ scraped_cpas' = r.table
         /\ persistFailed' = (persistFailed \/ r.query)
         /\ tooMany' = r.tooMany
         /\ IF r.threw
            THEN /\ pc' = "abDelay" /\ event' = "searchFailed"
                 /\ UNCHANGED <<counters, initialAt>>
            ELSE IF r.tooMany
            THEN /\ pc' = "abInitial" /\ event' = "tooMany"
                 /\ initialAt' = 1
                 /\ UNCHANGED counters
            ELSE /\ pc' = "abDelay" /\ event' = "searchOk"
                 /\ AddCounts(r)
                 /\ UNCHANGED initialAt
    /\ UNCHANGED <<searchIdx, albertaFrame>>

\* const narrowResult = await this._searchAndParse(dbClient, lastName, initial, jobId)
AbInitialSearch ==
    /\ pc = "abInitial"
    /\ requests' = requests + 1
    /\ \E res \in AlbertaResponses : \E r \in searchAndParse(scraped_cpas, res, jobId) :
         /\ scraped_cpas' = r.table
         /\ persistFailed' = (persistFailed \/ r.query)
         /\ subResults' = Append(subResults, [threw |-> r.threw, tooMany |-> r.tooMany,
                                              found |-> r.found, inserted |-> r.inserted,
                                              skipped |-> r.skipped])
         /\ IF r.threw
            THEN /\ pc' = afterNarrowedFailure /\ event' = "searchFailed"
                 /\ UNCHANGED counters
            ELSE /\ pc' = "abInitialDelay" /\ event' = "searchOk"
                 /\ AddCounts(r)
    /\ UNCHANGED <<searchIdx, tooMany, initialAt, base, albertaFrame>>

\* await delay(2000) after one initial, then the next initial
AbInitialDelay ==
    /\ pc = "abInitialDelay"
    /\ initialAt' = initialAt + 1
    /\ pc' = IF initialAt + 1 > NumInitials THEN "abDelay" ELSE "abInitial"
    /\ event' = "delay"
    /\ UNCHANGED <<scraped_cpas, counters, searchIdx, tooMany, requests, base, subResults,
                   persistFailed, albertaFrame>>

\* await delay(2000) after one surname, then idx++ and the loop condition
AbDelay ==
    /\ pc = "abDelay"
    /\ searchIdx' = searchIdx + 1
    /\ pc' = IF searchIdx + 1 < AlbertaSurnames THEN "abSurname" ELSE "completeJob"
    /\ event' = "delay"
    /\ UNCHANGED <<scraped_cpas, counters, albertaVars, persistFailed, albertaFrame>>

InitAlberta ==
    /\ source = "cpaalberta"
    /\ scrape_jobs = <<>>
    /\ scraped_cpas = EmptyBag
    /\ mocked = FALSE /\ mock = NoMock /\ site = PlainSite
    /\ RunIdle /\ OthersIdle

NextAlberta ==
    \/ CallScrape \/ StartJob \/ StartJobFails
    \/ AbSurnameSearch \/ AbInitialSearch \/ AbInitialDelay \/ AbDelay
    \/ CompleteJob \/ CompleteJobFails \/ FailJob \/ FailJobFails \/ ReturnCounts

SpecAlberta == InitAlberta /\ [][NextAlberta]_vars


\* the counts the finished sub-searches of the current surname returned, added up
RECURSIVE SumOf(_, _)
SumOf(ended, field) ==
    IF ended = <<>> THEN 0
    ELSE (IF Head(ended).threw THEN 0 ELSE Head(ended)[field])
         + SumOf(Tail(ended), field)

\* the iteration of one surname is over
SurnameDone == source = "cpaalberta" /\ pc = "abDelay"
Narrowing == source = "cpaalberta" /\ pc \in {"abInitial", "abInitialDelay"}

\* the sub-searches are sent exactly when the surname-only search was refused, and
\* then all of them, whatever fails
NarrowedIffRefused ==
    /\ Narrowing => tooMany /\ Len(subResults) < NumInitials + 1
    /\ SurnameDone => Len(subResults) = (IF tooMany THEN NumInitials ELSE 0)

\* after a refused surname the counts have grown by the sums over its sub-searches
CountsAreSums ==
    SurnameDone /\ tooMany =>
        /\ totalFound = base[1] + SumOf(subResults, "found")
        /\ totalInserted = base[2] + SumOf(subResults, "inserted")
        /\ totalSkipped = base[3] + SumOf(subResults, "skipped")

\* C29: for each surname the first-initial sub-searches are issued if and only if
\* the surname-only search was refused with the refine-your-search heading; the
\* counts are then the sums over the narrowed sub-searches, and a failed
\* sub-search does not stop the remaining initials
C29_NarrowingOnlyWhenRefused == NarrowedIffRefused /\ CountsAreSums

\* a refused surname whose first sub-search failed and whose last one stored a person
C29_Witness ==
    /\ SurnameDone /\ tooMany
    /\ subResults[1].threw
    /\ ~subResults[NumInitials].threw /\ subResults[NumInitials].inserted > 0
    /\ totalInserted > base[2]

\* C30: one run never sends more search requests than surnames x initials
C30_RequestsAtMostSurnamesTimesInitials ==
    requests <= AlbertaSurnames * NumInitials

\* what holds instead: each surname costs its own search and, when refused, one
\* search per initial
RequestsAtMostSurnamesTimesInitialsPlusOne ==
    requests <= AlbertaSurnames * (NumInitials + 1)
AllSurnamesRefused ==
    source = "cpaalberta" /\ pc = "completeJob"
    /\ requests = AlbertaSurnames * (NumInitials + 1)


----------------------------------------------------------------------------
(* Searches the Alberta directory refuses *)

\* the step is a search whose answer carries the refine-your-search heading
SurnameRefused == source = "cpaalberta" /\ pc = "abSurname" /\ tooMany' /\ requests' = requests + 1
InitialRefused ==
    /\ source = "cpaalberta" /\ pc = "abInitial"
    /\ Len(subResults') = Len(subResults) + 1
    /\ subResults'[Len(subResults')].tooMany

\* the run goes on to narrower searches, the outcome recorded as a refusal
Narrows == event' = "tooMany" /\ pc' = "abInitial"

\* C31: every search answered with the too-many-results heading has an outcome
\* that differs from zero results and makes the run issue narrower sub-searches, a
\* refused first-initial search included
C31_RefusedSearchIsNarrowed ==
    [][(SurnameRefused \/ InitialRefused) => Narrows]_vars

\* the part of C31 that holds: a refused surname-only search is narrowed
RefusedSurnameIsNarrowed == [][SurnameRefused => Narrows]_vars

\* a refused first-initial search ends like one without results: nothing narrower
\* is sent, and the run goes on to the next initial
RefusedInitialEndsAsZero ==
    [][InitialRefused => event' = "searchOk" /\ pc' = "abInitialDelay"
                          /\ UNCHANGED <<counters, scraped_cpas>>]_vars


----------------------------------------------------------------------------
(* Overlapping runs of one scraper: trigger, rescrape and the weekly schedule *)

\* search terms per run in this part of the model
OverlapTerms == 1

\* what the overlapping runs leave alone
overlapFrame == <<source, runVars, sweepVars, ontarioVars, quebecVars, orchVars, adminVars,
                  matchVars, pureVars, smeVars, loaderVars, enrichVars, corpVars, albertaVars,
                  webhookVars>>

\* how a run of the scraper comes about: POST /api/scrape/trigger/:source, POST
\* /api/scrape/rescrape/:source, or the weekly cron job calling runAll
Callers == {"trigger", "rescrape", "cron"}

\* a handler or the cron job starts; no handler looks for a run in progress
OvArrive(r) ==
    /\ runs[r].state = "idle" /\ runs[r].via = "none"
    /\ \E via \in Callers :
         runs' = [runs EXCEPT ![r].via = via,
                              ![r].state = IF via = "rescrape" THEN "purge" ELSE "startJob"]
    /\ UNCHANGED <<dbVars, overlapFrame>>

\* rescrape: DELETE FROM scraped_cpas WHERE source = $1, then runSingle
OvPurge(r) ==
    /\ runs[r].state = "purge"
    /\ scraped_cpas' = DeleteSource(scraped_cpas, source)
    /\ runs' = [runs EXCEPT ![r].state = "startJob"]
    /\ UNCHANGED <<scrape_jobs, overlapFrame>>

\* scrape(): const jobId = await this._startJob(dbClient)
OvStartJob(r) ==
    /\ runs[r].state = "startJob"
    /\ scrape_jobs' = Append(scrape_jobs, JobRow(source))
    /\ runs' = [runs EXCEPT ![r].jobId = Len(scrape_jobs) + 1, ![r].state = "search",
                            ![r].term = 1]
    /\ UNCHANGED <<scraped_cpas, overlapFrame>>

\* after one record of a run: its next record, or its next term, or the completion
OvAfterRecord(run) ==
    IF Len(run.records) > 1 THEN [run EXCEPT !.records = Tail(@), !.state = "dedup"]
    ELSE [run EXCEPT !.records = <<>>, !.term = @ + 1,
                     !.state = IF run.term + 1 > OverlapTerms THEN "completeJob" ELSE "search"]

\* one search POST of the run and its answer; a failed request ends the term
OvSearch(r) ==
    /\ runs[r].state = "search"
    /\ \E res \in SearchResponses :
         LET recs == IF res.ok THEN parseResults(res.page) ELSE <<>>
             got == [runs[r] EXCEPT !.found = @ + Len(recs), !.records = recs]
         IN  runs' = [runs EXCEPT ![r] =
                        IF recs = <<>> THEN OvAfterRecord(got)
                        ELSE [got EXCEPT !.state = "dedup"]]
    /\ UNCHANGED <<dbVars, overlapFrame>>

\* SELECT id FROM scraped_cpas WHERE name_hash = $1
OvDedupCheck(r) ==
    /\ runs[r].state = "dedup"
    /\ runs' = [runs EXCEPT ![r] =
                  IF SelectByHash(scraped_cpas, nameHashOf(Head(runs[r].records))) # {}
                  THEN OvAfterRecord([runs[r] EXCEPT !.skipped = @ + 1])
                  ELSE [runs[r] EXCEPT !.state = "insert"]]
    /\ UNCHANGED <<dbVars, overlapFrame>>

\* the table scraped_cpas: the reference behaviour has no unique constraint on the
\* identity hash (it is named as an improvement a stricter implementation may make)
UniqueNameHash == FALSE

\* INSERT INTO scraped_cpas ...; under a unique constraint the INSERT of a stored
\* hash rejects, which ends the term in its catch
OvInsertRecord(r) ==
    /\ runs[r].state = "insert"
    /\ IF UniqueNameHash /\ SelectByHash(scraped_cpas, nameHashOf(Head(runs[r].records))) # {}
       THEN /\ runs' = [runs EXCEPT ![r] = OvAfterRecord([runs[r] EXCEPT !.records = <<>>])]
            /\ UNCHANGED scraped_cpas
       ELSE /\ scraped_cpas' = scraped_cpas
                   (+) SetToBag({CpaRow(source, Head(runs[r].records),
                                        nameHashOf(Head(runs[r].records)), runs[r].jobId)})
            /\ runs' = [runs EXCEPT ![r] = OvAfterRecord([runs[r] EXCEPT !.inserted = @ + 1])]
    /\ UNCHANGED <<scrape_jobs, overlapFrame>>

\* await this._completeJob(dbClient, jobId, totalFound, totalInserted, totalSkipped)
OvCompleteJob(r) ==
    /\ runs[r].state = "completeJob"
    /\ scrape_jobs' = completeJobRow(scrape_jobs, runs[r].jobId, runs[r].found,
                                     runs[r].inserted, runs[r].skipped)
    /\ runs' = [runs EXCEPT ![r].state = "done"]
    /\ UNCHANGED <<scraped_cpas, overlapFrame>>

InitOverlap ==
    /\ source = "cpabc"
    /\ scrape_jobs = <<>>
    /\ scraped_cpas = EmptyBag
    /\ mocked = FALSE /\ mock = NoMock /\ site = PlainSite
    /\ RunIdle /\ OthersIdle

NextOverlap ==
    \E r \in 1..MaxOverlap :
        \/ OvArrive(r) \/ OvPurge(r) \/ OvStartJob(r) \/ OvSearch(r)
        \/ OvDedupCheck(r) \/ OvInsertRecord(r) \/ OvCompleteJob(r)

SpecOverlap == InitOverlap /\ [][NextOverlap]_vars

\* C32: two overlapping runs of the same scraper against the shared store never
\* leave two person records with the same identity hash
C32_OverlappingRunsStoreNoDuplicate ==
    \A h \in StoredHashes : HashCount(scraped_cpas, h) = 1


\* the jobs of the source that are recorded as running
RunningJobs(s) ==
    {i \in 1..Len(scrape_jobs) : scrape_jobs[i].source = s /\ scrape_jobs[i].status = "running"}

\* the scrape() call of run r has started and has not finished
ScrapeInProgress(r) == runs[r].state \in {"search", "dedup", "insert", "completeJob"}

\* the step is the DELETE of a rescrape while another run's scrape() is in progress
PurgeDuringScrape ==
    \E r, other \in 1..MaxOverlap :
        /\ r # other
        /\ runs[r].state = "purge" /\ runs'[r].state = "startJob"
        /\ ScrapeInProgress(other)

\* C33: at most one scrape job per source is 'running' at any time, whatever
\* trigger requests, rescrape requests and scheduled runs occur, and a rescrape
\* purge never executes while a scrape of the same source is in progress
C33_OneRunningJobPerSource ==
    /\ [](Cardinality(RunningJobs(source)) <= 1)
    /\ [][~PurgeDuringScrape]_vars

\* each half of C33 on its own
AtMostOneRunningJob == Cardinality(RunningJobs(source)) <= 1
NoPurgeDuringScrape == [][~PurgeDuringScrape]_vars


----------------------------------------------------------------------------
(* CPAOntarioScraper: the inserts it starts and the completion of its job *)

\* scrape() has written the 'completed' row of its job and is about to return
OntarioCompleted ==
    /\ source = "cpaontario" /\ pc = "return"
    /\ scrape_jobs[jobId].status = "completed"

\* an _insertRecord call the run started has a query that is not answered yet
InsertPending == \E i \in 1..Len(queue) : queue[i].by = "task"

\* every insert the run started has finished when the job is written as completed
InsertsFinishedAtCompletion == OntarioCompleted => ~InsertPending

\* the recorded counts add up
RecordedCountsAddUp ==
    OntarioCompleted =>
        scrape_jobs[jobId].records_found =
            scrape_jobs[jobId].records_inserted + scrape_jobs[jobId].records_skipped

\* a failed insert is never left to the runtime as an unhandled rejection
InsertFailureHandled == source = "cpaontario" => event # "unhandledRejection"

\* C34: when CPAOntarioScraper.scrape() writes the 'completed' job row and returns,
\* every insert it started has finished, the recorded counts satisfy
\* found = inserted + skipped, and a failure of a started insert is handled inside
\* the run
C34_InsertsFinishedBeforeCompletion ==
    InsertsFinishedAtCompletion /\ RecordedCountsAddUp /\ InsertFailureHandled


----------------------------------------------------------------------------
(* The counters of CPABCScraper, IMISDirectoryScraper and CPAAlbertaScraper *)

\* one run of any of the three scrapers
InitCounters == InitSweep \/ InitAlberta
NextCounters == NextSweep \/ NextAlberta
SpecCounters == InitCounters /\ [][NextCounters]_vars

\* the number of person rows that carry the id of job j
RECURSIVE RowCount(_, _)
RowCount(table, rows) ==
    IF rows = {} THEN 0
    ELSE LET r == CHOOSE x \in rows : TRUE
         IN  table[r] + RowCount(table, rows \ {r})
RowsOfJob(j) == RowCount(scraped_cpas, {r \in BagToSet(scraped_cpas) : r.scrape_job_id = j})

\* the job of the run is recorded as completed and no query for a record rejected
CompletedCleanly ==
    /\ jobId \in 1..Len(scrape_jobs)
    /\ scrape_jobs[jobId].status = "completed"
    /\ ~persistFailed

\* the counters of one run on its own
CountersAddUpInOneRun ==
    /\ totalInserted + totalSkipped <= totalFound
    /\ CompletedCleanly =>
          /\ scrape_jobs[jobId].records_found =
                scrape_jobs[jobId].records_inserted + scrape_jobs[jobId].records_skipped
          /\ scrape_jobs[jobId].records_inserted = RowsOfJob(jobId)

\* a run has just recorded its job as completed
JustCompleted(r) == runs[r].state = "completeJob" /\ runs'[r].state = "done"

\* the rows of a job are counted right when the job is recorded as completed
RowsCountedAtCompletion ==
    [][\A r \in 1..MaxOverlap :
         JustCompleted(r) => scrape_jobs'[runs[r].jobId].records_inserted
                               = RowsOfJob(runs[r].jobId)']_vars

\* the counts of a completed job add up, whatever runs overlap
OverlappingCountsAddUp ==
    \A r \in 1..MaxOverlap :
        /\ runs[r].inserted + runs[r].skipped <= runs[r].found
        /\ runs[r].state = "done" =>
              scrape_jobs[runs[r].jobId].records_found =
                  scrape_jobs[runs[r].jobId].records_inserted
                  + scrape_jobs[runs[r].jobId].records_skipped

\* C35: at every point of a run inserted + skipped <= found; in every job recorded
\* 'completed' during which no persistence call failed, records_found =
\* records_inserted + records_skipped, and records_inserted is the number of
\* person rows carrying that job's id
\* (the row count is taken at the step that records the job as completed)
C35_CountersAddUp ==
    /\ []CountersAddUpInOneRun
    /\ []OverlappingCountsAddUp
    /\ RowsCountedAtCompletion

\* a cleanly completed job that inserted and skipped records
CleanJobInsertedAndSkipped ==
    /\ CompletedCleanly
    /\ scrape_jobs[jobId].records_inserted > 0
    /\ scrape_jobs[jobId].records_skipped > 0
CleanAlbertaJob == CleanJobInsertedAndSkipped /\ source = "cpaalberta"
CleanSweepJob == CleanJobInsertedAndSkipped /\ source = "cpamb"


----------------------------------------------------------------------------
(* The hidden inputs of a search POST are not empty *)

\* C36: in CPABCScraper and IMISDirectoryScraper every search POST carries a
\* non-empty set of hidden inputs, also every search after a session
\* re-establishment
C36_PostCarriesHiddenFields ==
    AboutToSearch => fieldCount(hiddenFields) > 0

\* the first search POST of a CPABC run carries a non-empty set
FirstPostOfBCCarriesHiddenFields ==
    AboutToSearch /\ IsBC /\ searchIdx = 1 => fieldCount(hiddenFields) > 0

\* the same for every POST of CPABC, and for the first POST of an iMIS scraper
EveryPostOfBCCarriesHiddenFields ==
    AboutToSearch /\ IsBC => fieldCount(hiddenFields) > 0
FirstPostOfIMISCarriesHiddenFields ==
    AboutToSearch /\ ~IsBC /\ searchIdx = 1 => fieldCount(hiddenFields) > 0


----------------------------------------------------------------------------
(* A failed re-establishment of the CPABC session *)

\* the latest step was the failure of a re-establishment request of CPABC
BCReestablishJustFailed == IsBC /\ event = "reestablishFailed"

\* C37: a CPABC re-establishment attempt that fails at either of its two requests
\* leaves the carried cookies, the carried hidden inputs and the count of
\* consecutive failures as they were before the attempt
C37_FailedReestablishChangesNothing ==
    BCReestablishJustFailed => Carried = attemptFrom

\* the parts of C37 that hold: hidden inputs and the count are as before
FailedReestablishKeepsHiddenAndCount ==
    BCReestablishJustFailed =>
        /\ hiddenFields = attemptFrom.hiddenFields
        /\ consecutiveErrors = attemptFrom.consecutiveErrors

\* and a failure at the first request changes nothing
FailedFirstRequestChangesNothing ==
    [][pc = "reAgreement" /\ event' = "reestablishFailed" => Carried' = Carried]_vars


----------------------------------------------------------------------------
(* CPAQuebecScraper: the page loop of one last name ends *)

\* the page numbers requested for last name k, in the order of the requests
PagesOf(k) == SelectSeq(attempted, LAMBDA a : a[1] = k)

\* at most PageCap + 1 requests per last name, for the pages 0, 1, 2, ... in order
PagesBounded ==
    source = "cpaquebec" =>
        \A k \in 1..QuebecTerms :
            /\ Len(PagesOf(k)) <= PageCap + 1
            /\ \A i \in 1..Len(PagesOf(k)) : PagesOf(k)[i][2] = i - 1

\* the step is a search POST that failed or returned fewer than PageSize records
ShortOrFailedPage ==
    /\ pc = "qcSearch"
    /\ event' = "searchFailed" \/ totalFound' - totalFound < PageSize

\* the run is storing the records of the last page of a name, or is done with the name
LastPageOfName == ~hasMore /\ pc \in {"qcDedup", "qcInsert"}

\* after such a page no further page of the name is requested: the records of the
\* page are stored, then the run goes to the delay that ends the name
StopsAtShortOrFailedPage ==
    /\ [][ShortOrFailedPage =>
            pc' = "qcDelay" \/ (pc' = "qcDedup" /\ ~hasMore')]_vars
    /\ [][LastPageOfName =>
            pc' = "qcDelay" \/ (pc' \in {"qcDedup", "qcInsert"} /\ ~hasMore')]_vars

\* the delay that ends a name is followed by the next name, from page 0, or by
\* the completion of the job
MovesToNextName ==
    [][pc = "qcDelay" =>
          /\ searchIdx' = searchIdx + 1 /\ page' = 0
          /\ pc' = IF searchIdx < QuebecTerms THEN "qcSearch" ELSE "completeJob"]_vars

\* C38: the page loop of CPAQuebecScraper ends: for each last name at most 51
\* requests (pages 0..50) are issued, the loop stops at the first page that
\* returns fewer than 10 records or whose request fails, and the run then moves
\* on to the next last name
C38_PageLoopTerminates ==
    /\ []PagesBounded
    /\ StopsAtShortOrFailedPage
    /\ MovesToNextName

\* the run has requested all 51 pages of a name and has gone on
C38_Witness ==
    /\ source = "cpaquebec"
    /\ Len(PagesOf(1)) = PageCap + 1
    /\ searchIdx = 2

\* a name whose loop stopped at a short page, and one whose loop stopped at a failure
StoppedAtShortPage ==
    /\ source = "cpaquebec" /\ pc = "qcDelay" /\ event # "searchFailed"
    /\ Len(PagesOf(1)) = 2
StoppedAtFailedPage ==
    /\ source = "cpaquebec" /\ pc = "qcDelay" /\ event = "searchFailed"
    /\ Len(PagesOf(1)) = 2


----------------------------------------------------------------------------
(* handleStripeWebhook: POST /api/stripe/webhook *)

\* the events Stripe delivers: an id, a type, and of the payload the subscription
\* it names ("" if none) and the subscription status it carries
StripeEvent(i, t, sub, st) == [id |-> i, type |-> t, subscription |-> sub, status |-> st]
StripeEvents ==
    {StripeEvent("evt_1", "checkout.session.completed", "sub_1", ""),
     StripeEvent("evt_2", "customer.subscription.updated", "sub_1", "past_due"),
     StripeEvent("evt_3", "customer.subscription.deleted", "sub_1", ""),
     StripeEvent("evt_4", "invoice.payment_succeeded", "sub_1", ""),
     StripeEvent("evt_5", "invoice.payment_failed", "", ""),
     StripeEvent("evt_6", "charge.refunded", "", "")}
EventIds == {e.id : e \in StripeEvents}

\* what the webhook handler leaves alone
webhookFrame == <<dbVars, runVars, sweepVars, ontarioVars, quebecVars, orchVars, adminVars,
                  matchVars, pureVars, smeVars, loaderVars, enrichVars, corpVars,
                  albertaVars, overlapVars, stripe>>

\* an earlier delivery of the event id has been answered with 200
AnsweredBefore(id) ==
    \E o \in 1..MaxDeliveries :
        /\ deliveries[o].state = "done" /\ deliveries[o].event.id = id
        /\ deliveries[o].answer \in {"received", "duplicate"}

\* res.json({ received: true }), res.json({ received: true, duplicate: true }),
\* res.status(503) or res.status(400)
Answer(dl, a) == [dl EXCEPT !.state = "done", !.answer = a]

\* the request arrives: 503 without a Stripe client, 400 when the signature does not
\* verify or the body does not parse, else the event
WhArrive(d) ==
    /\ deliveries[d].state = "idle"
    /\ d > 1 => deliveries[d - 1].state # "idle"
    /\ IF stripe = NoStripe
       THEN deliveries' = [deliveries EXCEPT ![d] = Answer(@, "503")]
       ELSE \E e \in StripeEvents, verified \in BOOLEAN :
              deliveries' = [deliveries EXCEPT ![d] =
                  IF verified
                  THEN [@ EXCEPT !.state = "record", !.event = e,
                                 !.redelivery = AnsweredBefore(e.id)]
                  ELSE Answer(@, "400")]
    /\ UNCHANGED <<webhook_events, cpa_subscriptions, stripe_transactions, webhookFrame>>

\* the rows of webhook_events with the event id
StoredEvent(id) == {r \in webhook_events : r.stripe_event_id = id}

\* INSERT INTO webhook_events (stripe_event_id, event_type): it stores the row, or
\* rejects with code 23505 when the id is stored (answer: duplicate), or rejects with
\* another error, which is logged before the handler goes on
WhRecord(d) ==
    /\ deliveries[d].state = "record"
    /\ \E rejects \in BOOLEAN :
         LET e == deliveries[d].event
         IN  IF rejects
             THEN /\ deliveries' = [deliveries EXCEPT ![d].recorded = "failed",
                                                      ![d].state = "dispatch"]
                  /\ UNCHANGED webhook_events
             ELSE IF StoredEvent(e.id) # {}
             THEN /\ deliveries' = [deliveries EXCEPT
                                       ![d] = Answer([@ EXCEPT !.recorded = "duplicate"],
                                                     "duplicate")]
                  /\ UNCHANGED webhook_events
             ELSE /\ webhook_events' = webhook_events
                         \cup {[stripe_event_id |-> e.id, event_type |-> e.type]}
                  /\ deliveries' = [deliveries EXCEPT ![d].recorded = "stored",
                                                      ![d].state = "dispatch"]
    /\ UNCHANGED <<cpa_subscriptions, stripe_transactions, webhookFrame>>

\* INSERT INTO cpa_subscriptions ... ON CONFLICT (stripe_subscription_id) DO UPDATE
\* SET status = 'active'
upsertSubscription(table, sub) ==
    {r \in table : r.stripe_subscription_id # sub}
        \cup {[stripe_subscription_id |-> sub, status |-> "active"]}

\* UPDATE cpa_subscriptions SET status = $1 WHERE stripe_subscription_id = $2
updateSubscription(table, sub, st) ==
    {IF r.stripe_subscription_id = sub THEN [r EXCEPT !.status = st] ELSE r : r \in table}

\* INSERT INTO stripe_transactions (..., stripe_invoice_id, ..., status)
insertTransaction(table, e, st) ==
    table (+) SetToBag({[stripe_invoice_id |-> e.id, stripe_subscription_id |-> e.subscription,
                         status |-> st]})

InvoiceTypes == {"invoice.payment_succeeded", "invoice.payment_failed"}
TransactionStatus(t) == IF t = "invoice.payment_succeeded" THEN "succeeded" ELSE "failed"
SubscriptionStatus(t) == IF t = "invoice.payment_succeeded" THEN "active" ELSE "past_due"

\* switch (event.type): the first query of the handler of the type; a rejection is
\* caught and logged; either way the answer is { received: true }
WhDispatch(d) ==
    /\ deliveries[d].state = "dispatch"
    /\ LET e == deliveries[d].event
           called == [deliveries[d] EXCEPT !.dispatched = TRUE]
       IN  \E rejects \in BOOLEAN :
             IF e.type = "charge.refunded"
             THEN /\ ~rejects
                  /\ deliveries' = [deliveries EXCEPT ![d] = Answer(called, "received")]
                  /\ UNCHANGED <<cpa_subscriptions, stripe_transactions>>
             ELSE IF rejects
             THEN /\ deliveries' = [deliveries EXCEPT
                                       ![d] = Answer([called EXCEPT !.threw = TRUE], "received")]
                  /\ UNCHANGED <<cpa_subscriptions, stripe_transactions>>
             ELSE IF e.type \in InvoiceTypes
             THEN /\ stripe_transactions' =
                         insertTransaction(stripe_transactions, e, TransactionStatus(e.type))
                  /\ deliveries' = [deliveries EXCEPT ![d] =
                                       IF e.subscription # ""
                                       THEN [called EXCEPT !.state = "markStatus"]
                                       ELSE Answer(called, "received")]
                  /\ UNCHANGED cpa_subscriptions
             ELSE /\ cpa_subscriptions' =
                         CASE e.type = "checkout.session.completed" ->
                                  upsertSubscription(cpa_subscriptions, e.subscription)
                           [] e.type = "customer.subscription.updated" ->
                                  updateSubscription(cpa_subscriptions, e.subscription, e.status)
                           [] e.type = "customer.subscription.deleted" ->
                                  updateSubscription(cpa_subscriptions, e.subscription, "canceled")
                  /\ deliveries' = [deliveries EXCEPT ![d] = Answer(called, "received")]
                  /\ UNCHANGED stripe_transactions
    /\ UNCHANGED <<webhook_events, webhookFrame>>

\* if (invoice.subscription) UPDATE cpa_subscriptions SET status = 'active' or 'past_due'
WhMarkStatus(d) ==
    /\ deliveries[d].state = "markStatus"
    /\ LET e == deliveries[d].event
       IN  \E rejects \in BOOLEAN :
             IF rejects
             THEN /\ deliveries' = [deliveries EXCEPT
                                       ![d] = Answer([@ EXCEPT !.threw = TRUE], "received")]
                  /\ UNCHANGED cpa_subscriptions
             ELSE /\ cpa_subscriptions' = updateSubscription(cpa_subscriptions, e.subscription,
                                                             SubscriptionStatus(e.type))
                  /\ deliveries' = [deliveries EXCEPT ![d] = Answer(@, "received")]
    /\ UNCHANGED <<webhook_events, stripe_transactions, webhookFrame>>

InitWebhook ==
    /\ source = "cpabc"
    /\ scrape_jobs = <<>>
    /\ scraped_cpas = EmptyBag
    /\ mocked = FALSE /\ mock = NoMock /\ site = PlainSite
    /\ RunIdle /\ ScrapersIdle /\ AdminIdle /\ MatchIdle /\ PureIdle
    /\ scraped_smes = <<>> /\ LoaderIdle /\ EnrichIdle /\ CorpIdle /\ AlbertaIdle
    /\ OverlapIdle /\ StripeIdle
    /\ stripe \in {StripeClient, NoStripe}

NextWebhook ==
    \E d \in 1..MaxDeliveries :
        WhArrive(d) \/ WhRecord(d) \/ WhDispatch(d) \/ WhMarkStatus(d)

SpecWebhook == InitWebhook /\ [][NextWebhook]_vars

\* the deliveries of an event id that were dispatched to the handler of its type
DispatchedOf(id) ==
    {d \in 1..MaxDeliveries : deliveries[d].event.id = id /\ deliveries[d].dispatched}

DispatchedAtMostOnce == \A id \in EventIds : Cardinality(DispatchedOf(id)) <= 1

\* a delivery that arrived after an answered delivery of its event id is answered
\* as a duplicate, without a dispatch
RedeliveryAnsweredAsDuplicate ==
    \A d \in 1..MaxDeliveries :
        deliveries[d].redelivery /\ deliveries[d].state = "done" =>
            deliveries[d].answer = "duplicate" /\ ~deliveries[d].dispatched

\* and no step of it changes a subscription row or a transaction row
RedeliveryChangesNoRow ==
    [][\A d \in 1..MaxDeliveries :
          deliveries[d].redelivery /\ deliveries'[d] # deliveries[d] =>
              UNCHANGED <<cpa_subscriptions, stripe_transactions>>]_vars

\* C39: each Stripe event id is dispatched to its handler at most once; a second
\* delivery of an event id is answered as a duplicate and changes no subscription
\* or transaction row, whether the handler of the first delivery succeeded or
\* threw, or the INSERT of the idempotency record failed with a non-duplicate error
C39_WebhookIdempotent ==
    /\ []DispatchedAtMostOnce
    /\ []RedeliveryAnsweredAsDuplicate
    /\ RedeliveryChangesNoRow

\* the cases of C39 that hold: at most one delivery of an event id stores the
\* idempotency record, a delivery answered 23505 is not dispatched, and after a
\* delivery that stored the record (its handler succeeding or throwing) a later
\* delivery whose INSERT is answered by the database is a duplicate
StoredBy(id) ==
    {d \in 1..MaxDeliveries : deliveries[d].event.id = id /\ deliveries[d].recorded = "stored"}
RecordStoredAtMostOnce == \A id \in EventIds : Cardinality(StoredBy(id)) <= 1
DuplicateIsNotDispatched ==
    \A d \in 1..MaxDeliveries :
        deliveries[d].recorded = "duplicate" =>
            deliveries[d].answer = "duplicate" /\ ~deliveries[d].dispatched
DuplicateAfterStoredRecord ==
    \A d \in 1..MaxDeliveries :
        /\ deliveries[d].redelivery /\ deliveries[d].state = "done"
        /\ deliveries[d].recorded # "failed"
        /\ StoredBy(deliveries[d].event.id) \ {d} # {}
        => deliveries[d].answer = "duplicate"

\* a redelivery after a handler that threw is answered as a duplicate
RedeliveryAfterThrow ==
    \E d, f \in 1..MaxDeliveries :
        /\ deliveries[d].threw /\ deliveries[d].recorded = "stored"
        /\ deliveries[f].redelivery /\ deliveries[f].event.id = deliveries[d].event.id
        /\ deliveries[f].answer = "duplicate"


\* the third case of C39 as it runs: the INSERT of the first delivery failed with a
\* non-duplicate error, its handler ran, and the second delivery, whose INSERT
\* stored the record, was dispatched as well and wrote a second transaction row
SecondDeliveryDispatchedAfterFailedRecord ==
    \E d, f \in 1..MaxDeliveries :
        /\ deliveries[d].recorded = "failed" /\ deliveries[d].dispatched
        /\ deliveries[f].redelivery /\ deliveries[f].event.id = deliveries[d].event.id
        /\ deliveries[f].recorded = "stored" /\ deliveries[f].dispatched
        /\ \E t \in BagToSet(stripe_transactions) :
              t.stripe_invoice_id = deliveries[d].event.id /\ stripe_transactions[t] = 2

=============================================================================
